---- MODULE Spec2Model ----
(***************************************************************************)
(* Event fabric of the todo system: the three idempotent consumers         *)
(* (audit-service, recurring-service, notification-service) and the Dapr   *)
(* event publisher of the backend.                                         *)
(*                                                                         *)
(* A consumer invocation is a worker that walks through its handler: the   *)
(* synchronous prefix up to the first point where another invocation (of   *)
(* another replica, or after an await) can interleave, then the outbound    *)
(* call (recurring-service only), then session.commit().                   *)
(***************************************************************************)
EXTENDS Integers, Sequences, FiniteSets, TLC

\* ------------------------------------------------------------------ bounds
MaxDeliveries == 2      \* broker deliveries (all consumers together)
NumWorkers == 2         \* concurrent invocations per consuming service
MaxPublishes == 3       \* publish invocations
MaxOps == 4             \* requests served by the backend
MaxLifeOps == 2         \* requests on the task whose life is followed

\* ------------------------------------------------------------- JSON values
NoneVal == "None"                       \* Python None / absent key

\* Variant of Truthy: tests `is None` only, so an empty string passes.
TruthyNotNone(x) == x # NoneVal

\* Python truthiness of a str-or-None value (`if not x`).
Truthy(x) == x \notin {NoneVal, ""}

\* uuid.UUID(text): the texts that parse, and the UUID each one denotes.
\* "E1" is another spelling (upper case) of the UUID written "e1".
\* The ids the publisher draws are written "e1", "e2", ...
IdText(n) == "e" \o ToString(n)
UUIDTexts == {"e1", "E1", "e2", "e3", "t1"}
                \cup {IdText(n) : n \in 1..MaxPublishes}
ParsesAsUUID(s) == s \in UUIDTexts
UUID(s) == IF s = "E1" THEN "e1" ELSE s

\* A calendar date (datetime restricted to its date part) or no/garbled value.
\* t is the text of the time of day with its UTC offset.
DateTime(y, m, d, t) == [kind |-> "date", y |-> y, m |-> m, d |-> d, t |-> t]
Date(y, m, d) == DateTime(y, m, d, "00:00:00+00:00")
NoDate == [kind |-> "none", y |-> 0, m |-> 0, d |-> 0, t |-> ""]
\* A non-empty text that datetime.fromisoformat rejects.
GarbledDate == [kind |-> "garbled", y |-> 0, m |-> 0, d |-> 0, t |-> ""]

\* task_data of a task event: shape is "dict", or "null" for a JSON null or
\* other non-object value, or "absent" when the key is missing.
TaskData(shape, rec, rule, due) ==
    [shape |-> shape,
     title |-> IF shape = "dict" THEN "title" ELSE NoneVal,
     description |-> IF shape = "dict" THEN "desc" ELSE NoneVal,
     priority |-> IF shape = "dict" THEN "high" ELSE NoneVal,
     tags |-> IF shape = "dict" THEN <<"home">> ELSE <<>>,
     is_recurring |-> rec, recurrence_rule |-> rule, due_at |-> due]
NoTaskData == TaskData("absent", NoneVal, NoneVal, NoDate)

\* The data field of an envelope, for both topics (unused fields are None).
Data(shape, et, tid, uid, ts, td, rid, title) ==
    [shape |-> shape, event_type |-> et, task_id |-> tid, user_id |-> uid,
     timestamp |-> ts, task_data |-> td, reminder_id |-> rid, title |-> title]
EmptyData(shape) ==
    Data(shape, NoneVal, NoneVal, NoneVal, NoneVal, NoTaskData, NoneVal, NoneVal)
TaskEventData(et, tid, ts, td) ==
    Data("dict", et, tid, "u1", ts, td, NoneVal, NoneVal)
ReminderData == Data("dict", NoneVal, "t1", "u1", "ts", NoTaskData, "r1", "title")

Envelope(id, data) == [id |-> id, data |-> data]

Weekly31 == TaskData("dict", "true", "weekly", Date(2026, 1, 31))
Valid == TaskEventData("completed", "t1", "ts", Weekly31)

\* The envelopes the broker may deliver, by name; the state holds the names.
EnvelopeTable ==
    \* topic task-events
       "task e1 completed weekly" :> Envelope("e1", Valid)
    @@ "task E1 completed weekly" :> Envelope("E1", Valid)
    \* (PUT with is_recurring=false leaves the rule of the task in place)
    @@ "task e2 completed once" :>
         Envelope("e2", TaskEventData("completed", "t1", "ts",
                                      TaskData("dict", "false", "weekly",
                                               Date(2026, 1, 31))))
    @@ "task e3 completed no rule" :>
         Envelope("e3", TaskEventData("completed", "t1", "garbled",
                                      TaskData("dict", "true", NoneVal, NoDate)))
    @@ "task e3 created daily" :>
         Envelope("e3", TaskEventData("created", "t1", NoneVal,
                                      TaskData("dict", "true", "daily", NoDate)))
    @@ "task e2 archived" :>
         Envelope("e2", TaskEventData("archived", "t1", "ts", Weekly31))
    @@ "task e2 bad task_id" :>
         Envelope("e2", TaskEventData("completed", "not-a-uuid", "ts", Weekly31))
    @@ "task e2 no data" :> Envelope("e2", EmptyData("absent"))
    @@ "task e3 null data" :> Envelope("e3", EmptyData("null"))
    @@ "task no id" :> Envelope(NoneVal, Valid)
    @@ "task empty id" :> Envelope("", Valid)
    @@ "task bad id" :> Envelope("not-a-uuid", Valid)
    \* topic reminders
    @@ "reminder e1" :> Envelope("e1", ReminderData)
    @@ "reminder E1" :> Envelope("E1", ReminderData)
    @@ "reminder e3 no data" :> Envelope("e3", EmptyData("absent"))
    @@ "reminder e3 null data" :> Envelope("e3", EmptyData("null"))
    @@ "reminder no id" :> Envelope(NoneVal, ReminderData)
    @@ "reminder empty id" :> Envelope("", ReminderData)
    @@ "reminder bad id" :> Envelope("not-a-uuid", ReminderData)
    \* no envelope in hand
    @@ "-" :> Envelope(NoneVal, EmptyData("absent"))

\* The envelope of a task event as publish_task_event builds it from the
\* task row: id, event type and the snapshot of the recurrence fields.
PublishedName(id, event_type, is_recurring) ==
    "published " \o IdText(id) \o " " \o event_type
        \o (IF is_recurring THEN " recurring" ELSE " once")
PublishedEnvelope(id, event_type, is_recurring) ==
    Envelope(IdText(id),
             TaskEventData(event_type, "t1", "ts",
                           IF is_recurring
                           THEN TaskData("dict", "true", "weekly",
                                         Date(2026, 1, 31))
                           ELSE TaskData("dict", "false", NoneVal, NoDate)))
PublishedKeys ==
    (1..MaxPublishes) \X {"created", "updated", "completed", "deleted"}
        \X BOOLEAN
PublishedTable ==
    [n \in {PublishedName(k[1], k[2], k[3]) : k \in PublishedKeys} |->
        LET k == CHOOSE k \in PublishedKeys :
                    PublishedName(k[1], k[2], k[3]) = n
        IN  PublishedEnvelope(k[1], k[2], k[3])]

\* The envelope of a reminder event as publish_reminder_event builds it
\* for the reminder with id rid: a fresh envelope id and the payload.
PublishedReminderName(id, rid) ==
    "published reminder " \o IdText(id) \o " r" \o ToString(rid)
PublishedReminderEnvelope(id, rid) ==
    Envelope(IdText(id),
             Data("dict", NoneVal, "t1", "u1", "ts", NoTaskData,
                  "r" \o ToString(rid), "title"))
PublishedReminderKeys == (1..MaxPublishes) \X (1..MaxOps)
PublishedReminderTable ==
    [n \in {PublishedReminderName(k[1], k[2]) : k \in PublishedReminderKeys}
       |-> LET k == CHOOSE k \in PublishedReminderKeys :
                       PublishedReminderName(k[1], k[2]) = n
           IN  PublishedReminderEnvelope(k[1], k[2])]

Env(name) ==
    IF name \in DOMAIN EnvelopeTable THEN EnvelopeTable[name]
    ELSE IF name \in DOMAIN PublishedTable THEN PublishedTable[name]
    ELSE PublishedReminderTable[name]
NoEnvelope == "-"

TaskEnvelopes ==
    {"task e1 completed weekly", "task E1 completed weekly",
     "task e2 completed once", "task e3 completed no rule",
     "task e3 created daily", "task e2 archived", "task e2 bad task_id",
     "task e2 no data", "task e3 null data",
     "task no id", "task empty id", "task bad id"}

ReminderEnvelopes ==
    {"reminder e1", "reminder E1", "reminder e3 no data",
     "reminder e3 null data", "reminder no id", "reminder empty id",
     "reminder bad id"}

\* The wall clock read by datetime.now(timezone.utc).
Clock == {Date(2026, 12, 31)}

Services == {"audit", "recurring", "notification"}
Workers == 1..NumWorkers

\* ------------------------------------------------- recurrence computation
IsLeap(y) == (y % 4 = 0 /\ y % 100 # 0) \/ y % 400 = 0

DaysInMonth(y, m) ==
    IF m = 2 THEN (IF IsLeap(y) THEN 29 ELSE 28)
    ELSE IF m \in {4, 6, 9, 11} THEN 30 ELSE 31

NextDay(dt) ==
    IF dt.d < DaysInMonth(dt.y, dt.m) THEN [dt EXCEPT !.d = @ + 1]
    ELSE IF dt.m < 12 THEN [dt EXCEPT !.m = @ + 1, !.d = 1]
    ELSE [dt EXCEPT !.y = @ + 1, !.m = 1, !.d = 1]

RECURSIVE AddDays(_, _)
\* base + relativedelta(days=n): the time of day is kept.
AddDays(dt, n) == IF n = 0 THEN dt ELSE AddDays(NextDay(dt), n - 1)

\* Variant of AddMonth: a month is taken to be 30 days.
AddThirtyDays(dt) == AddDays(dt, 30)

\* base + relativedelta(months=1): next calendar month, day clamped, the
\* time of day kept.
AddMonth(dt) ==
    LET y == IF dt.m = 12 THEN dt.y + 1 ELSE dt.y
        m == IF dt.m = 12 THEN 1 ELSE dt.m + 1
        dim == DaysInMonth(y, m)
    IN  [dt EXCEPT !.y = y, !.m = m, !.d = IF dt.d > dim THEN dim ELSE dt.d]

\* current_due_at.replace("Z", "+00:00") on the time texts in use.
ReplaceZ(t) ==
    IF t = "00:00:00Z" THEN "00:00:00+00:00"
    ELSE IF t = "18:45:10Z" THEN "18:45:10+00:00"
    ELSE t

\* Variant of OffsetOf: an unknown rule is treated as weekly.
OffsetOfUnknownWeekly(recurrence_rule) ==
    IF recurrence_rule = "daily" THEN 1 ELSE 7

\* Days added by the non-monthly branches: daily, weekly, and the fallback.
OffsetOf(recurrence_rule) ==
    IF recurrence_rule = "weekly" THEN 7 ELSE 1

\* The result stands for the datetime whose isoformat() is returned.
compute_next_due_date(current_due_at, recurrence_rule, now) ==
    LET base == IF current_due_at.kind = "date"
                THEN [current_due_at EXCEPT !.t = ReplaceZ(@)]
                ELSE now
    IN  IF recurrence_rule = "monthly" THEN AddMonth(base)
        ELSE AddDays(base, OffsetOf(recurrence_rule))

\* ------------------------------------------------------- backend entities
Users == {"u1", "u2"}
TaskIds == {"t1", "t2"}
TaskRank == [t \in TaskIds |-> IF t = "t1" THEN 1 ELSE 2]

\* A row of table tasks (the columns the event fabric reads), or no row.
\* A row made by create_task carries a rule exactly when it is recurring
\* (TaskCreate.validate_recurring_consistency); the rule in use is weekly.
Task(user, completed, is_recurring) ==
    [user |-> user, completed |-> completed, is_recurring |-> is_recurring,
     recurrence_rule |-> IF is_recurring THEN "weekly" ELSE NoneVal]
NoTask == Task("none", FALSE, FALSE)

\* A row of table reminders; id is the uuid4 default of the model, future
\* tells whether remind_at was later than the clock when the row was made.
Reminder(id, task_id, user_id, future) ==
    [id |-> id, task_id |-> task_id, user_id |-> user_id, future |-> future]

\* The answer of a backend request: op, HTTP status (or the success flag of
\* an agent tool), and for the trigger callback what it looked up.
Response(op, status, reminder, task, user) ==
    [op |-> op, status |-> status, reminder |-> reminder, task |-> task,
     user |-> user, token |-> user]
NoResponse == Response("init", "none", 0, "none", "none")

\* ------------------------------------------------------------------- state
VARIABLES
    ledger,       \* per service: the event ids in its processed_event table
    auditStore,   \* rows of audit_entry, in insertion order
    successors,   \* tasks the backend created for recurring-service requests
    createCalls,  \* POSTs recurring-service issued to the task-creation API
    notifLog,     \* NOTIFICATION log lines of notification-service
    pc,           \* per service and worker: "idle", "call" or "commit"
    env,          \* per service and worker: the envelope being handled
    wnow,         \* per service and worker: the clock value read on receipt
    nDeliv,       \* deliveries made by the broker so far
    last,         \* the consumer step taken last and what it answered
    published,    \* envelopes the broker accepted from the publisher
    brokerCalls,  \* POSTs the publisher issued to the broker
    nPublish,     \* publish invocations so far
    nextId,       \* uuid4 stream of the publisher
    pubLast,      \* the publish invocation made last and what it returned
    tasks,        \* backend table tasks: per task id its row, or NoTask
    reminders,    \* backend table reminders
    jobs,         \* one-shot jobs held by the Dapr scheduler
    work,         \* detached asyncio tasks not yet run to completion
    sent,         \* payloads the backend handed to the publisher, by id
    nOps,         \* backend requests served so far
    opsOn,        \* per task id: lifecycle operations performed on it
    orphans,      \* ids of the reminders that belonged to deleted tasks
    nextRem,      \* uuid4 stream of the reminder ids
    cancelLast,   \* the cancel_reminder_job call made last and its result
    resp,         \* the backend request served last and its answer
    calc          \* a call of a pure function: its arguments and result

consumerVars == <<ledger, auditStore, successors, createCalls, notifLog,
                  pc, env, wnow, nDeliv, last>>
publisherVars == <<published, brokerCalls, nPublish, nextId, pubLast>>
backendVars == <<tasks, reminders, jobs, work, sent, nOps, opsOn, orphans,
                 nextRem, cancelLast, resp>>
vars == <<ledger, auditStore, successors, createCalls, notifLog,
          pc, env, wnow, nDeliv, last,
          published, brokerCalls, nPublish, nextId, pubLast,
          tasks, reminders, jobs, work, sent, nOps, opsOn, orphans,
          nextRem, cancelLast, resp, calc>>

\* The step taken last: its input (the outcome of the outbound call or of the
\* commit) and what the endpoint answered: the handler's status, "EXCEPTION" for an
\* exception that leaves the handler (HTTP 500), "PENDING" while it runs.
Step(svc, op, e, input, result) ==
    [svc |-> svc, op |-> op, env |-> e, input |-> input, result |-> result]

\* No pure function is being called.
NoCall ==
    [fn |-> "none", current_due_at |-> NoDate, recurrence_rule |-> NoneVal,
     now |-> NoDate, result |-> NoDate, returned |-> FALSE]

Init ==
    /\ ledger = [s \in Services |-> {}]
    /\ auditStore = <<>>
    /\ successors = <<>>
    /\ createCalls = 0
    /\ notifLog = <<>>
    /\ pc = [s \in Services |-> [w \in Workers |-> "idle"]]
    /\ env = [s \in Services |-> [w \in Workers |-> NoEnvelope]]
    /\ wnow = [s \in Services |-> [w \in Workers |-> NoDate]]
    /\ nDeliv = 0
    /\ last = Step("none", "init", NoEnvelope, "-", "PENDING")
    /\ published = {}
    /\ brokerCalls = 0
    /\ nPublish = 0
    /\ nextId = 1
    /\ pubLast = [op |-> "init", returned |-> "none", status |-> "none"]
    /\ tasks = [t \in TaskIds |-> NoTask]
    /\ reminders = {}
    /\ jobs = {}
    /\ work = {}
    /\ sent = {}
    /\ nOps = 0
    /\ opsOn = [t \in TaskIds |-> 0]
    /\ orphans = {}
    /\ nextRem = 1
    /\ cancelLast = [job |-> <<"none", 0>>, existed |-> FALSE, status |-> "none",
                     returned |-> "none"]
    /\ resp = NoResponse
    /\ calc = NoCall

\* A delivery is served by the first free invocation slot of the service
\* (the slots are interchangeable).
Free(svc, w) ==
    /\ pc[svc][w] = "idle"
    /\ \A v \in Workers : v < w => pc[svc][v] # "idle"

\* A worker takes an envelope and either answers at once or moves on.
Proceed(svc, w, e, now, to, answer) ==
    /\ pc' = [pc EXCEPT ![svc][w] = to]
    /\ env' = [env EXCEPT ![svc][w] = IF to = "idle" THEN NoEnvelope ELSE e]
    /\ wnow' = [wnow EXCEPT ![svc][w] = IF to = "idle" THEN NoDate ELSE now]
    /\ last' = Step(svc, "receive", e, "-", answer)
    /\ nDeliv' = nDeliv + 1

\* ------------------------------------------------------------ audit-service
VALID_EVENT_TYPES == {"created", "updated", "completed", "deleted"}

\* existing = session.get(ProcessedEvent, UUID(event_id))
AuditExisting(event_id) == UUID(event_id) \in ledger["audit"]

\* Lines 38-82 of handle_task_event: what the handler does before it commits.
AuditPrefix(e) ==
    IF ~Truthy(e.id) THEN "DROP"
    ELSE IF ~ParsesAsUUID(e.id) THEN "EXCEPTION"
    ELSE IF AuditExisting(e.id) THEN "SUCCESS"
    ELSE IF e.data.shape = "null" THEN "EXCEPTION"
    ELSE IF ~Truthy(e.data.event_type) \/ ~Truthy(e.data.task_id)
            \/ ~Truthy(e.data.user_id) THEN "DROP"
    ELSE IF e.data.event_type \notin VALID_EVENT_TYPES THEN "DROP"
    ELSE IF ~ParsesAsUUID(e.data.task_id) THEN "EXCEPTION"
    ELSE "COMMIT"

\* Variant of AuditTimestamp: the text of the event is stored as it is.
AuditTimestampAsSent(timestamp_str) == timestamp_str

\* datetime.fromisoformat(...) with the fallback to the receipt time.
AuditTimestamp(timestamp_str) ==
    IF timestamp_str = "ts" THEN "ts" ELSE "receipt"

\* The AuditEntry row; from_event records the envelope it was built from.
AuditEntry(e) ==
    [from_event |-> UUID(e.id),
     event_type |-> e.data.event_type,
     task_id |-> UUID(e.data.task_id),
     user_id |-> e.data.user_id,
     event_data |-> e.data,
     timestamp |-> AuditTimestamp(e.data.timestamp)]

AuditReceive(w, e) ==
    /\ nDeliv < MaxDeliveries
    /\ Free("audit", w)
    /\ LET out == AuditPrefix(Env(e)) IN
         IF out = "COMMIT"
         THEN Proceed("audit", w, e, NoDate, "commit", "PENDING")
         ELSE Proceed("audit", w, e, NoDate, "idle", out)
    /\ UNCHANGED <<ledger, auditStore, successors, createCalls, notifLog>>
    /\ UNCHANGED <<publisherVars, backendVars, calc>>

\* Variant of AuditCommit: the audit entry is committed on its own, before
\* the ledger row.
AuditCommitSeparately(w, dbOk) ==
    /\ pc["audit"][w] = "commit"
    /\ LET e == env["audit"][w]
           ok == dbOk /\ UUID(Env(e).id) \notin ledger["audit"]
       IN  /\ auditStore' = Append(auditStore, AuditEntry(Env(e)))
           /\ ledger' = IF ok THEN [ledger EXCEPT !["audit"] = @ \cup {UUID(Env(e).id)}]
                               ELSE ledger
           /\ last' = Step("audit", "commit", e, IF dbOk THEN "db_ok" ELSE "db_fail",
                            IF ok THEN "SUCCESS" ELSE "EXCEPTION")
    /\ pc' = [pc EXCEPT !["audit"][w] = "idle"]
    /\ env' = [env EXCEPT !["audit"][w] = NoEnvelope]
    /\ UNCHANGED <<successors, createCalls, notifLog, wnow, nDeliv>>
    /\ UNCHANGED <<publisherVars, backendVars, calc>>

\* Variant of AuditCommit: the ledger has no primary key on event_id, so
\* the commit is refused by a database error only.
AuditCommitNoKey(w, dbOk) ==
    /\ pc["audit"][w] = "commit"
    /\ LET e == env["audit"][w] IN
           /\ auditStore' = IF dbOk THEN Append(auditStore, AuditEntry(Env(e)))
                                    ELSE auditStore
           /\ ledger' = IF dbOk THEN [ledger EXCEPT !["audit"] = @ \cup {UUID(Env(e).id)}]
                                 ELSE ledger
           /\ last' = Step("audit", "commit", e, IF dbOk THEN "db_ok" ELSE "db_fail",
                            IF dbOk THEN "SUCCESS" ELSE "EXCEPTION")
    /\ pc' = [pc EXCEPT !["audit"][w] = "idle"]
    /\ env' = [env EXCEPT !["audit"][w] = NoEnvelope]
    /\ UNCHANGED <<successors, createCalls, notifLog, wnow, nDeliv>>
    /\ UNCHANGED <<publisherVars, backendVars, calc>>

\* Variant of AuditCommit: one row per task, overwritten by the latest
\* event of the task.
AuditCommitUpsert(w, dbOk) ==
    /\ pc["audit"][w] = "commit"
    /\ LET e == env["audit"][w]
           ok == dbOk /\ UUID(Env(e).id) \notin ledger["audit"]
           entry == AuditEntry(Env(e))
           rows == {i \in 1..Len(auditStore) :
                      auditStore[i].task_id = entry.task_id}
       IN  /\ auditStore' =
                 IF ~ok THEN auditStore
                 ELSE IF rows = {} THEN Append(auditStore, entry)
                 ELSE [i \in 1..Len(auditStore) |->
                         IF i \in rows THEN entry ELSE auditStore[i]]
           /\ ledger' = IF ok THEN [ledger EXCEPT !["audit"] = @ \cup {UUID(Env(e).id)}]
                               ELSE ledger
           /\ last' = Step("audit", "commit", e, IF dbOk THEN "db_ok" ELSE "db_fail",
                            IF ok THEN "SUCCESS" ELSE "EXCEPTION")
    /\ pc' = [pc EXCEPT !["audit"][w] = "idle"]
    /\ env' = [env EXCEPT !["audit"][w] = NoEnvelope]
    /\ UNCHANGED <<successors, createCalls, notifLog, wnow, nDeliv>>
    /\ UNCHANGED <<publisherVars, backendVars, calc>>

\* session.add(audit_entry); session.add(processed); session.commit():
\* one transaction, which fails as a whole on a database error or when the
\* primary key of processed_event is already taken.
AuditCommit(w, dbOk) ==
    /\ pc["audit"][w] = "commit"
    /\ LET e == env["audit"][w]
           ok == dbOk /\ UUID(Env(e).id) \notin ledger["audit"]
       IN  /\ auditStore' = IF ok THEN Append(auditStore, AuditEntry(Env(e)))
                                   ELSE auditStore
           /\ ledger' = IF ok THEN [ledger EXCEPT !["audit"] = @ \cup {UUID(Env(e).id)}]
                               ELSE ledger
           /\ last' = Step("audit", "commit", e, IF dbOk THEN "db_ok" ELSE "db_fail",
                            IF ok THEN "SUCCESS" ELSE "EXCEPTION")
    /\ pc' = [pc EXCEPT !["audit"][w] = "idle"]
    /\ env' = [env EXCEPT !["audit"][w] = NoEnvelope]
    /\ UNCHANGED <<successors, createCalls, notifLog, wnow, nDeliv>>
    /\ UNCHANGED <<publisherVars, backendVars, calc>>

\* -------------------------------------------------------- recurring-service
\* Variant of RecurringExisting: compares the raw id text with the ledger.
RecurringExistingByText(event_id) == event_id \in ledger["recurring"]

\* Variant of RecurringExisting: one ledger shared by all services.
RecurringExistingShared(event_id) ==
    UUID(event_id) \in UNION {ledger[s] : s \in Services}

\* existing = session.get(ProcessedEvent, UUID(event_id))
RecurringExisting(event_id) == UUID(event_id) \in ledger["recurring"]

\* `not is_recurring` for the JSON values true, false and null.
IsRecurring(task_data) == task_data.is_recurring = "true"

\* Variant of HasRule: the rule is not looked at.
HasRuleAlways(task_data) == TRUE

\* `not recurrence_rule`, negated: the rule is neither None nor empty.
HasRule(task_data) == Truthy(task_data.recurrence_rule)

\* Lines 81-130 of handle_task_event: what the handler does before its first
\* commit or outbound call.  "SKIP" is the filtered or rule-less event,
\* which is only marked processed.
RecurrencePrefix(e) ==
    IF ~Truthy(e.id) THEN "DROP"
    ELSE IF ~ParsesAsUUID(e.id) THEN "EXCEPTION"
    ELSE IF RecurringExisting(e.id) THEN "SUCCESS"
    ELSE IF e.data.shape = "null" THEN "EXCEPTION"
    ELSE IF e.data.task_data.shape = "null" THEN "EXCEPTION"
    ELSE IF e.data.event_type # "completed" \/ ~IsRecurring(e.data.task_data)
         THEN "SKIP"
    ELSE IF ~HasRule(e.data.task_data) THEN "SKIP"
    ELSE "CALL"

\* Variant of NewTaskPayload: the due time of the snapshot is carried over.
NewTaskPayloadSameDue(e, now) ==
    LET task_data == e.data.task_data IN
    [from_event |-> UUID(e.id),
     user_id |-> e.data.user_id,
     title |-> IF task_data.shape = "absent" THEN "" ELSE task_data.title,
     description |-> task_data.description,
     priority |-> task_data.priority,
     tags |-> task_data.tags,
     due_at |-> task_data.due_at,
     is_recurring |-> TRUE,
     recurrence_rule |-> task_data.recurrence_rule]

\* new_task_payload and the user the request is addressed to; from_event
\* records the envelope it was built from.
NewTaskPayload(e, now) ==
    LET task_data == e.data.task_data IN
    [from_event |-> UUID(e.id),
     user_id |-> e.data.user_id,
     title |-> IF task_data.shape = "absent" THEN "" ELSE task_data.title,
     description |-> task_data.description,
     priority |-> task_data.priority,
     tags |-> task_data.tags,
     due_at |-> compute_next_due_date(task_data.due_at,
                                      task_data.recurrence_rule, now),
     is_recurring |-> TRUE,
     recurrence_rule |-> task_data.recurrence_rule]

RecurringReceive(w, e, now) ==
    /\ nDeliv < MaxDeliveries
    /\ Free("recurring", w)
    /\ LET out == RecurrencePrefix(Env(e)) IN
         IF out = "CALL"
         THEN Proceed("recurring", w, e, now, "call", "PENDING")
         ELSE IF out = "SKIP"
         THEN Proceed("recurring", w, e, now, "commit", "PENDING")
         ELSE Proceed("recurring", w, e, now, "idle", out)
    /\ UNCHANGED <<ledger, auditStore, successors, createCalls, notifLog>>
    /\ UNCHANGED <<publisherVars, backendVars, calc>>

\* Outcomes of the POST to the task-creation API: "created" (200/201),
\* "refused" (any other status), "unreachable" (transport error, the backend
\* never saw the request), "timeout" (the backend created the task and the
\* response was lost).
CreateOutcomes == {"created", "refused", "unreachable", "timeout"}

\* Variant of RecurringCreateTask: every response is taken for a success, so
\* only a transport error gives RETRY.
RecurringCreateTaskAnyStatus(w, outcome) ==
    /\ pc["recurring"][w] = "call"
    /\ LET e == env["recurring"][w]
           answered == outcome \in {"created", "refused"}
       IN  /\ successors' = IF outcome \in {"created", "timeout"}
                             THEN Append(successors,
                                         NewTaskPayload(Env(e), wnow["recurring"][w]))
                             ELSE successors
           /\ createCalls' = createCalls + 1
           /\ pc' = [pc EXCEPT !["recurring"][w] =
                         IF answered THEN "commit" ELSE "idle"]
           /\ env' = [env EXCEPT !["recurring"][w] =
                          IF answered THEN e ELSE NoEnvelope]
           /\ wnow' = [wnow EXCEPT !["recurring"][w] =
                           IF answered THEN @ ELSE NoDate]
           /\ last' = Step("recurring", "call", e, outcome,
                            IF answered THEN "PENDING" ELSE "RETRY")
    /\ UNCHANGED <<ledger, auditStore, notifLog, nDeliv>>
    /\ UNCHANGED <<publisherVars, backendVars, calc>>

\* Lines 135-157: the creation call and what the handler makes of it.
RecurringCreateTask(w, outcome) ==
    /\ pc["recurring"][w] = "call"
    /\ LET e == env["recurring"][w]
           answered == outcome = "created"
       IN  /\ successors' = IF outcome \in {"created", "timeout"}
                             THEN Append(successors,
                                         NewTaskPayload(Env(e), wnow["recurring"][w]))
                             ELSE successors
           /\ createCalls' = createCalls + 1
           /\ pc' = [pc EXCEPT !["recurring"][w] =
                         IF answered THEN "commit" ELSE "idle"]
           /\ env' = [env EXCEPT !["recurring"][w] =
                          IF answered THEN e ELSE NoEnvelope]
           /\ wnow' = [wnow EXCEPT !["recurring"][w] =
                           IF answered THEN @ ELSE NoDate]
           /\ last' = Step("recurring", "call", e, outcome,
                            IF answered THEN "PENDING" ELSE "RETRY")
    /\ UNCHANGED <<ledger, auditStore, notifLog, nDeliv>>
    /\ UNCHANGED <<publisherVars, backendVars, calc>>

\* Variant of RecurringCommit: SUCCESS is answered without the ledger row.
RecurringCommitNoRow(w, dbOk) ==
    /\ pc["recurring"][w] = "commit"
    /\ last' = Step("recurring", "commit", env["recurring"][w],
                    IF dbOk THEN "db_ok" ELSE "db_fail",
                    IF dbOk THEN "SUCCESS" ELSE "EXCEPTION")
    /\ pc' = [pc EXCEPT !["recurring"][w] = "idle"]
    /\ env' = [env EXCEPT !["recurring"][w] = NoEnvelope]
    /\ wnow' = [wnow EXCEPT !["recurring"][w] = NoDate]
    /\ UNCHANGED <<ledger, auditStore, successors, createCalls, notifLog,
                   nDeliv>>
    /\ UNCHANGED <<publisherVars, backendVars, calc>>

\* session.add(processed); session.commit()
RecurringCommit(w, dbOk) ==
    /\ pc["recurring"][w] = "commit"
    /\ LET e == env["recurring"][w]
           ok == dbOk /\ UUID(Env(e).id) \notin ledger["recurring"]
       IN  /\ ledger' = IF ok
                         THEN [ledger EXCEPT !["recurring"] = @ \cup {UUID(Env(e).id)}]
                         ELSE ledger
           /\ last' = Step("recurring", "commit", e, IF dbOk THEN "db_ok" ELSE "db_fail",
                            IF ok THEN "SUCCESS" ELSE "EXCEPTION")
    /\ pc' = [pc EXCEPT !["recurring"][w] = "idle"]
    /\ env' = [env EXCEPT !["recurring"][w] = NoEnvelope]
    /\ wnow' = [wnow EXCEPT !["recurring"][w] = NoDate]
    /\ UNCHANGED <<auditStore, successors, createCalls, notifLog, nDeliv>>
    /\ UNCHANGED <<publisherVars, backendVars, calc>>

\* ----------------------------------------------------- notification-service
\* existing = session.get(ProcessedEvent, UUID(event_id))
NotificationExisting(event_id) == UUID(event_id) \in ledger["notification"]

\* Lines 33-53 of handle_reminder_event: what happens before the log line.
ReminderPrefix(e) ==
    IF ~Truthy(e.id) THEN "DROP"
    ELSE IF ~ParsesAsUUID(e.id) THEN "EXCEPTION"
    ELSE IF NotificationExisting(e.id) THEN "SUCCESS"
    ELSE IF e.data.shape = "null" THEN "EXCEPTION"
    ELSE "LOG"

\* The NOTIFICATION log line; from_event records the envelope it reports.
Notification(e) ==
    [from_event |-> UUID(e.id),
     user_id |-> e.data.user_id,
     task_id |-> e.data.task_id,
     title |-> e.data.title,
     reminder_id |-> e.data.reminder_id]

NotificationReceive(w, e) ==
    /\ nDeliv < MaxDeliveries
    /\ Free("notification", w)
    /\ LET out == ReminderPrefix(Env(e)) IN
         IF out = "LOG"
         THEN /\ Proceed("notification", w, e, NoDate, "commit", "PENDING")
              /\ notifLog' = Append(notifLog, Notification(Env(e)))
         ELSE /\ Proceed("notification", w, e, NoDate, "idle", out)
              /\ notifLog' = notifLog
    /\ UNCHANGED <<ledger, auditStore, successors, createCalls>>
    /\ UNCHANGED <<publisherVars, backendVars, calc>>

\* session.add(processed); session.commit()
NotificationCommit(w, dbOk) ==
    /\ pc["notification"][w] = "commit"
    /\ LET e == env["notification"][w]
           ok == dbOk /\ UUID(Env(e).id) \notin ledger["notification"]
       IN  /\ ledger' = IF ok
                         THEN [ledger EXCEPT !["notification"] = @ \cup {UUID(Env(e).id)}]
                         ELSE ledger
           /\ last' = Step("notification", "commit", e, IF dbOk THEN "db_ok" ELSE "db_fail",
                            IF ok THEN "SUCCESS" ELSE "EXCEPTION")
    /\ pc' = [pc EXCEPT !["notification"][w] = "idle"]
    /\ env' = [env EXCEPT !["notification"][w] = NoEnvelope]
    /\ UNCHANGED <<auditStore, successors, createCalls, notifLog, wnow, nDeliv>>
    /\ UNCHANGED <<publisherVars, backendVars, calc>>

\* ---------------------------------------------------------- event publisher
EventKinds == {"created", "updated", "completed", "deleted"}

\* Outcomes of the POST to the Dapr sidecar: an HTTP status ("204" is Dapr's
\* own code for an accepted message), "unreachable" (transport error, nothing
\* reached the broker) or "timeout" (the broker accepted the message and the
\* response was lost).
BrokerOutcomes == {"200", "204", "500", "unreachable", "timeout"}
Accepted(outcome) == outcome \in {"200", "204", "timeout"}

\* A publisher that takes every 2xx answer for success.
ReturnedAny2xx(buildOk, outcome) ==
    IF buildOk /\ outcome \in {"200", "204"} THEN "True" ELSE "False"

\* What a publish_* coroutine hands back: "True" or "False"; "raised" would
\* be an exception reaching the caller.  Everything inside the try block that
\* raises, and every status other than 200, gives False.
Returned(buildOk, outcome) ==
    IF buildOk /\ outcome = "200" THEN "True" ELSE "False"

\* A publisher that sends once more after a failed send.
PostsWithRetry(buildOk, outcome) ==
    IF ~buildOk THEN 0 ELSE IF outcome = "200" THEN 1 ELSE 2

\* Number of http_client.post calls of one publish invocation.
Posts(buildOk, outcome) == IF buildOk THEN 1 ELSE 0

\* A generator that hands out the same value again.
uuid4Repeating(n) == n

\* uuid.uuid4(): the stream of fresh values, advanced at every draw.
uuid4(n) == n + 1

\* The body of the three publish_* coroutines: build the payload and the
\* CloudEvent (id = uuid4), post it once, map the outcome to a boolean.
Publish(op, topic, type, kind, buildOk, outcome) ==
    /\ nPublish < MaxPublishes
    /\ nPublish' = nPublish + 1
    /\ nextId' = IF buildOk THEN uuid4(nextId) ELSE nextId
    /\ brokerCalls' = brokerCalls + Posts(buildOk, outcome)
    /\ published' =
          IF buildOk /\ Accepted(outcome)
          THEN published \cup {[topic |-> topic, id |-> nextId,
                                type |-> type, kind |-> kind]}
          ELSE published
    /\ pubLast' = [op |-> op,
                   returned |-> Returned(buildOk, outcome),
                   status |-> IF buildOk THEN outcome ELSE "build_error"]
    /\ UNCHANGED <<consumerVars, calc>>

publish_task_event(event_type, buildOk, outcome) ==
    Publish("publish_task_event", "task-events", "com.todo.task",
            event_type, buildOk, outcome)

publish_task_update_event(change_type, buildOk, outcome) ==
    Publish("publish_task_update_event", "task-updates", "com.todo.task.update",
            change_type, buildOk, outcome)

publish_reminder_event(buildOk, outcome) ==
    Publish("publish_reminder_event", "reminders", "com.todo.reminder",
            "trigger", buildOk, outcome)

\* ----------------------------------------------------------- backend (API)
\* A naming that gives every job the same name.
JobNameShared(id) == <<"reminder-", 0>>

\* job_name = f"reminder-{reminder.id}": the prefix and the id's text.
JobName(id) == <<"reminder-", id>>

\* A detached coroutine started with asyncio.create_task by request n:
\* _publish_events_fire_and_forget (stage 1 before the task event, stage 2
\* before the task-update event) or cancel_reminder_job.
PublishWork(n, event_type, task, user, is_recurring) ==
    [kind |-> "publish", n |-> n, stage |-> 1, event_type |-> event_type,
     task |-> task, user |-> user, is_recurring |-> is_recurring,
     job |-> <<"none", 0>>]
CancelWork(n, job) ==
    [kind |-> "cancel", n |-> n, stage |-> 1, event_type |-> "-",
     task |-> "none", user |-> "none", is_recurring |-> FALSE, job |-> job]

\* What the backend handed to the publisher under envelope id.
Sent(id, topic, event_type, task, user, is_recurring, reminder) ==
    [id |-> id, topic |-> topic, event_type |-> event_type, task |-> task,
     user |-> user, is_recurring |-> is_recurring, reminder |-> reminder]

\* Variant of OwnedTask: the row is selected by id alone.
OwnedTaskById(t, u) == tasks[t] # NoTask

\* select(Task).where(Task.id == task_id, Task.user_id == user_id).first()
OwnedTask(t, u) == tasks[t] # NoTask /\ tasks[t].user = u

\* The endpoints of the tasks router.
TaskEndpoints ==
    {"create_task", "list_tasks", "get_task", "update_task", "complete_task",
     "delete_task"}

\* A request is served: the counter and the answer (the answers of the
\* callback and of the tasks router are kept with the ids of the request).
Serve(op, status, r, t, u) ==
    /\ nOps < MaxOps
    /\ nOps' = nOps + 1
    /\ resp' = IF op \in TaskEndpoints \cup {"trigger_reminder"}
               THEN Response(op, status, r, t, u)
               ELSE Response(op, status, 0, "none", "none")

\* if token_user_id != url_user_id: raise HTTPException(403)
verify_user_access(token_user_id, url_user_id) == token_user_id = url_user_id

\* A request to the tasks router whose URL user is not the user of the
\* token: verify_user_access raises at the top of every handler.
Forbidden(op, token, u, t) ==
    /\ ~verify_user_access(token, u)
    /\ nOps < MaxOps
    /\ nOps' = nOps + 1
    /\ resp' = [Response(op, "403", 0, t, u) EXCEPT !.token = token]
    /\ UNCHANGED <<tasks, reminders, jobs, work, sent, opsOn, orphans,
                   nextRem, cancelLast>>
    /\ UNCHANGED <<consumerVars, publisherVars, calc>>

\* GET /api/{user_id}/tasks/{task_id}: the row of the user, or 404.
get_task(u, t) ==
    /\ Serve("get_task", IF OwnedTask(t, u) THEN "200" ELSE "404", 0, t, u)
    /\ UNCHANGED <<tasks, reminders, jobs, work, sent, opsOn, orphans,
                   nextRem, cancelLast>>
    /\ UNCHANGED <<consumerVars, publisherVars, calc>>

\* POST /api/{user_id}/tasks: the row is committed, then the publication is
\* started in the background.  Task ids are uuid4: never reused.
create_task(u, is_recurring) ==
    \E t \in TaskIds :
       /\ opsOn[t] = 0
       /\ \A v \in TaskIds : opsOn[v] = 0 => TaskRank[t] <= TaskRank[v]
       /\ Serve("create_task", "201", 0, t, u)
       /\ tasks' = [tasks EXCEPT ![t] = Task(u, FALSE, is_recurring)]
       /\ work' = work \cup {PublishWork(nOps, "created", t, u, is_recurring)}
       /\ opsOn' = [opsOn EXCEPT ![t] = @ + 1]
       /\ UNCHANGED <<reminders, jobs, sent, orphans, nextRem, cancelLast>>
       /\ UNCHANGED <<consumerVars, publisherVars, calc>>

VALID_RECURRENCE_RULES == {"daily", "weekly", "monthly"}

\* The recurrence fields of a TaskUpdate body: is_recurring is "true",
\* "false" or None (not given); recurrence_rule is a text or None, and
\* rule_given tells whether the key was in the body (model_fields_set).
TaskUpdate(is_recurring, recurrence_rule, rule_given) ==
    [is_recurring |-> is_recurring, recurrence_rule |-> recurrence_rule,
     rule_given |-> rule_given]
TaskUpdates ==
    {TaskUpdate(r, rule, g) :
        r \in {NoneVal, "true", "false"},
        rule \in {NoneVal, "daily", "yearly"}, g \in BOOLEAN}
      \ {TaskUpdate(r, rule, FALSE) :
            r \in {NoneVal, "true", "false"}, rule \in {"daily", "yearly"}}

\* PUT /api/{user_id}/tasks/{task_id}: the body is validated (422), the row
\* looked up (404), is_recurring=true without any rule refused (422), the
\* fields given are assigned and the row committed.
update_task(u, t, task_data) ==
    LET task == tasks[t]
        invalid == task_data.recurrence_rule
                     \notin VALID_RECURRENCE_RULES \cup {NoneVal}
        missing == /\ task_data.is_recurring = "true"
                   /\ task_data.recurrence_rule = NoneVal
                   /\ ~Truthy(task.recurrence_rule)
        is_recurring == IF task_data.is_recurring = NoneVal
                        THEN task.is_recurring
                        ELSE task_data.is_recurring = "true"
        recurrence_rule ==
            IF task_data.recurrence_rule # NoneVal
            THEN task_data.recurrence_rule
            ELSE IF task_data.rule_given THEN NoneVal
            ELSE task.recurrence_rule
    IN
    /\ IF invalid
       THEN /\ Serve("update_task", "422", 0, t, u)
            /\ UNCHANGED <<tasks, work, opsOn>>
       ELSE IF ~OwnedTask(t, u)
       THEN /\ Serve("update_task", "404", 0, t, u)
            /\ UNCHANGED <<tasks, work, opsOn>>
       ELSE IF missing
       THEN /\ Serve("update_task", "422", 0, t, u)
            /\ UNCHANGED <<tasks, work, opsOn>>
       ELSE /\ Serve("update_task", "200", 0, t, u)
            /\ tasks' = [tasks EXCEPT
                           ![t].is_recurring = is_recurring,
                           ![t].recurrence_rule = recurrence_rule]
            /\ work' = work \cup
                         {PublishWork(nOps, "updated", t, u, is_recurring)}
            /\ opsOn' = [opsOn EXCEPT ![t] = @ + 1]
    /\ UNCHANGED <<reminders, jobs, sent, orphans, nextRem, cancelLast>>
    /\ UNCHANGED <<consumerVars, publisherVars, calc>>

\* Variant of CompletionEventType: every toggle is published as completed.
CompletionEventTypeAlways(completed) == "completed"

\* event_type = "completed" if task.completed else "updated"
CompletionEventType(completed) ==
    IF completed THEN "completed" ELSE "updated"

\* PATCH /api/{user_id}/tasks/{task_id}/complete: toggles completed; the
\* event is "completed" when the task is now completed, else "updated".
complete_task(u, t) ==
    /\ IF OwnedTask(t, u)
       THEN LET now_completed == ~tasks[t].completed
                event_type == CompletionEventType(now_completed)
            IN  /\ Serve("complete_task", "200", 0, t, u)
                /\ tasks' = [tasks EXCEPT ![t].completed = now_completed]
                /\ work' = work \cup
                      {PublishWork(nOps, event_type, t, u,
                                   tasks[t].is_recurring)}
                /\ opsOn' = [opsOn EXCEPT ![t] = @ + 1]
       ELSE /\ Serve("complete_task", "404", 0, t, u)
            /\ UNCHANGED <<tasks, work, opsOn>>
    /\ UNCHANGED <<reminders, jobs, sent, orphans, nextRem, cancelLast>>
    /\ UNCHANGED <<consumerVars, publisherVars, calc>>

\* Answers of the Dapr scheduler to DELETE /jobs/{name}: "answered" (204 when
\* it held the job, 404 when not), "500", "unreachable" (nothing reached
\* it) or "timeout" (the job was removed and the response was lost).
CancelOutcomes == {"answered", "500", "unreachable", "timeout"}
CancelStatus(existed, outcome) ==
    IF outcome = "answered" THEN (IF existed THEN "204" ELSE "404")
    ELSE outcome

\* A canceller that counts only 204 as success.
CancelReturned204Only(status) == IF status = "204" THEN "True" ELSE "False"

\* The boolean cancel_reminder_job hands back.
CancelReturned(status) ==
    IF status \in {"204", "404"} THEN "True" ELSE "False"

\* EventPublisher.cancel_reminder_job(f"reminder-{id}")
cancel_reminder_job(job, outcome) ==
    LET existed == \E j \in jobs : j.name = job
        status == CancelStatus(existed, outcome)
    IN  /\ jobs' = IF outcome \in {"answered", "timeout"}
                   THEN {j \in jobs : j.name # job} ELSE jobs
        /\ cancelLast' = [job |-> job, existed |-> existed, status |-> status,
                          returned |-> CancelReturned(status)]

\* What the commit of a task deletion does to the task's reminders: the
\* foreign key reminders.task_id either cascades or refuses the deletion.
FKOutcomes == {"cascade", "restrict"}
RemindersOf(t) == {r \in reminders : r.task_id = t}

\* DELETE /api/{user_id}/tasks/{task_id}: starts one cancel per reminder and
\* the publication in the background, then deletes the row and commits.
delete_task(u, t, fk) ==
    /\ IF OwnedTask(t, u)
       THEN LET rs == {r \in reminders : r.task_id = t /\ r.user_id = u}
                refused == RemindersOf(t) # {} /\ fk = "restrict"
            IN  /\ Serve("delete_task", IF refused THEN "500" ELSE "204",
                         0, t, u)
                /\ work' = work \cup {CancelWork(nOps, JobName(r.id)) :
                                           r \in rs}
                                 \cup {PublishWork(nOps, "deleted", t, u,
                                                   tasks[t].is_recurring)}
                /\ tasks' = IF refused THEN tasks
                            ELSE [tasks EXCEPT ![t] = NoTask]
                /\ reminders' = IF refused THEN reminders
                                ELSE reminders \ RemindersOf(t)
                /\ orphans' = IF refused THEN orphans
                              ELSE orphans \cup {r.id : r \in RemindersOf(t)}
                /\ opsOn' = IF refused THEN opsOn
                            ELSE [opsOn EXCEPT ![t] = @ + 1]
       ELSE /\ Serve("delete_task", "404", 0, t, u)
            /\ UNCHANGED <<tasks, reminders, work, orphans, opsOn>>
    /\ UNCHANGED <<jobs, sent, nextRem, cancelLast>>
    /\ UNCHANGED <<consumerVars, publisherVars, calc>>

\* Agent tool TaskTools.complete_task: sets completed, commits, returns.
mcp_complete_task(u, t) ==
    /\ IF OwnedTask(t, u)
       THEN /\ Serve("mcp_complete_task", "success", 0, t, u)
            /\ tasks' = [tasks EXCEPT ![t].completed = TRUE]
            /\ opsOn' = [opsOn EXCEPT ![t] = @ + 1]
       ELSE /\ Serve("mcp_complete_task", "error", 0, t, u)
            /\ UNCHANGED <<tasks, opsOn>>
    /\ UNCHANGED <<reminders, jobs, work, sent, orphans, nextRem, cancelLast>>
    /\ UNCHANGED <<consumerVars, publisherVars, calc>>

\* Agent tool TaskTools.update_task: assigns the values given, unchecked,
\* commits and returns.
mcp_update_task(u, t, new_is_recurring, new_recurrence_rule) ==
    /\ IF OwnedTask(t, u)
       THEN /\ Serve("mcp_update_task", "success", 0, t, u)
            /\ tasks' = [tasks EXCEPT
                  ![t].is_recurring =
                      IF new_is_recurring = NoneVal THEN @
                      ELSE new_is_recurring = "true",
                  ![t].recurrence_rule =
                      IF new_recurrence_rule = NoneVal THEN @
                      ELSE new_recurrence_rule]
            /\ opsOn' = [opsOn EXCEPT ![t] = @ + 1]
       ELSE /\ Serve("mcp_update_task", "error", 0, t, u)
            /\ UNCHANGED <<tasks, opsOn>>
    /\ UNCHANGED <<reminders, jobs, work, sent, orphans, nextRem, cancelLast>>
    /\ UNCHANGED <<consumerVars, publisherVars, calc>>

\* Agent tool TaskTools.delete_task: deletes the row, commits, returns.
mcp_delete_task(u, t, fk) ==
    /\ IF OwnedTask(t, u)
       THEN LET refused == RemindersOf(t) # {} /\ fk = "restrict" IN
            /\ Serve("mcp_delete_task",
                     IF refused THEN "exception" ELSE "success", 0, t, u)
            /\ tasks' = IF refused THEN tasks
                        ELSE [tasks EXCEPT ![t] = NoTask]
            /\ reminders' = IF refused THEN reminders
                            ELSE reminders \ RemindersOf(t)
            /\ orphans' = IF refused THEN orphans
                          ELSE orphans \cup {r.id : r \in RemindersOf(t)}
            /\ opsOn' = IF refused THEN opsOn
                        ELSE [opsOn EXCEPT ![t] = @ + 1]
       ELSE /\ Serve("mcp_delete_task", "error", 0, t, u)
            /\ UNCHANGED <<tasks, reminders, orphans, opsOn>>
    /\ UNCHANGED <<jobs, work, sent, nextRem, cancelLast>>
    /\ UNCHANGED <<consumerVars, publisherVars, calc>>

\* Answers of the Dapr scheduler to POST /jobs/{name}: the job is stored on
\* "200" and on "timeout" (stored, response lost).
ScheduleOutcomes == {"200", "500", "unreachable", "timeout"}

\* A one-shot job: its name, its callback data and its retry policy.
Job(id, task_id, user_id) ==
    [name |-> JobName(id), reminder_id |-> id, task_id |-> task_id,
     user_id |-> user_id, retries |-> 3]

\* POST /api/{user_id}/tasks/{task_id}/reminders: remind_at <= now is
\* answered 400 first; then the task lookup; then the row is committed and
\* the job scheduled (a scheduling failure is only logged).
create_reminder(u, t, future, outcome) ==
    /\ IF ~future
       THEN /\ Serve("create_reminder", "400", 0, t, u)
            /\ UNCHANGED <<reminders, jobs, nextRem>>
       ELSE IF ~OwnedTask(t, u)
       THEN /\ Serve("create_reminder", "404", 0, t, u)
            /\ UNCHANGED <<reminders, jobs, nextRem>>
       ELSE /\ Serve("create_reminder", "201", nextRem, t, u)
            /\ reminders' = reminders \cup {Reminder(nextRem, t, u, future)}
            /\ nextRem' = nextRem + 1
            /\ jobs' = IF outcome \in {"200", "timeout"}
                       THEN jobs \cup {Job(nextRem, t, u)} ELSE jobs
    /\ UNCHANGED <<tasks, work, sent, opsOn, orphans, cancelLast>>
    /\ UNCHANGED <<consumerVars, publisherVars, calc>>

\* Agent tool TaskTools.set_reminder: parses remind_at and commits the row;
\* it neither compares remind_at with the clock nor schedules a job.
mcp_set_reminder(u, t, future) ==
    /\ IF ~OwnedTask(t, u)
       THEN /\ Serve("mcp_set_reminder", "error", 0, t, u)
            /\ UNCHANGED <<reminders, nextRem>>
       ELSE /\ Serve("mcp_set_reminder", "success", nextRem, t, u)
            /\ reminders' = reminders \cup {Reminder(nextRem, t, u, future)}
            /\ nextRem' = nextRem + 1
    /\ UNCHANGED <<tasks, jobs, work, sent, opsOn, orphans, cancelLast>>
    /\ UNCHANGED <<consumerVars, publisherVars, calc>>

\* DELETE /api/{user_id}/tasks/{task_id}/reminders/{reminder_id}: awaits the
\* cancel (its result is ignored), then deletes the row.
delete_reminder(u, t, rid, outcome) ==
    /\ IF \E r \in reminders : r.id = rid /\ r.task_id = t /\ r.user_id = u
       THEN /\ Serve("delete_reminder", "200", rid, t, u)
            /\ cancel_reminder_job(JobName(rid), outcome)
            /\ reminders' = {r \in reminders : r.id # rid}
       ELSE /\ Serve("delete_reminder", "404", rid, t, u)
            /\ UNCHANGED <<reminders, jobs, cancelLast>>
    /\ UNCHANGED <<tasks, work, sent, opsOn, orphans, nextRem>>
    /\ UNCHANGED <<consumerVars, publisherVars, calc>>

\* A cancel started by delete_task runs.
RunCancel(item, outcome) ==
    /\ item \in work /\ item.kind = "cancel"
    /\ cancel_reminder_job(item.job, outcome)
    /\ work' = work \ {item}
    /\ UNCHANGED <<tasks, reminders, sent, nOps, opsOn, orphans, nextRem, resp>>
    /\ UNCHANGED <<consumerVars, publisherVars, calc>>

\* Variant of SnapshotIsRecurring: every task is snapshotted as recurring.
SnapshotIsRecurringAlways(item) == TRUE

\* "is_recurring": task.is_recurring in the task_data snapshot.
SnapshotIsRecurring(item) == item.is_recurring

\* Variant of RunPublishTaskEvent: the helper gives up after a task event
\* that was not published.
RunPublishTaskEventThenStop(item, buildOk, outcome) ==
    /\ item \in work /\ item.kind = "publish" /\ item.stage = 1
    /\ publish_task_event(item.event_type, buildOk, outcome)
    /\ sent' = IF buildOk
               THEN sent \cup {Sent(nextId, "task-events", item.event_type,
                                    item.task, item.user,
                                    item.is_recurring, 0)}
               ELSE sent
    /\ work' = IF Returned(buildOk, outcome) = "True"
               THEN (work \ {item}) \cup {[item EXCEPT !.stage = 2]}
               ELSE work \ {item}
    /\ UNCHANGED <<tasks, reminders, jobs, nOps, opsOn, orphans, nextRem,
                   cancelLast, resp>>

\* Variant of RunPublishTaskEvent: the handler awaits the publication and
\* answers 500 when the publisher returned False.
RunPublishTaskEventAwaited(item, buildOk, outcome) ==
    /\ item \in work /\ item.kind = "publish" /\ item.stage = 1
    /\ publish_task_event(item.event_type, buildOk, outcome)
    /\ sent' = IF buildOk
               THEN sent \cup {Sent(nextId, "task-events", item.event_type,
                                    item.task, item.user,
                                    item.is_recurring, 0)}
               ELSE sent
    /\ work' = (work \ {item}) \cup {[item EXCEPT !.stage = 2]}
    /\ resp' = IF Returned(buildOk, outcome) = "True" THEN resp
               ELSE [resp EXCEPT !.status = "500"]
    /\ UNCHANGED <<tasks, reminders, jobs, nOps, opsOn, orphans, nextRem,
                   cancelLast>>

\* _publish_events_fire_and_forget, first half: the task event.
RunPublishTaskEvent(item, buildOk, outcome) ==
    /\ item \in work /\ item.kind = "publish" /\ item.stage = 1
    /\ publish_task_event(item.event_type, buildOk, outcome)
    /\ sent' = IF buildOk
               THEN sent \cup {Sent(nextId, "task-events", item.event_type,
                                    item.task, item.user,
                                    SnapshotIsRecurring(item), 0)}
               ELSE sent
    /\ work' = (work \ {item}) \cup {[item EXCEPT !.stage = 2]}
    /\ UNCHANGED <<tasks, reminders, jobs, nOps, opsOn, orphans, nextRem,
                   cancelLast, resp>>

\* _publish_events_fire_and_forget, second half: the task-update event.
RunPublishTaskUpdate(item, buildOk, outcome) ==
    /\ item \in work /\ item.kind = "publish" /\ item.stage = 2
    /\ publish_task_update_event(item.event_type, buildOk, outcome)
    /\ sent' = IF buildOk
               THEN sent \cup {Sent(nextId, "task-updates", item.event_type,
                                    item.task, item.user, FALSE, 0)}
               ELSE sent
    /\ work' = work \ {item}
    /\ UNCHANGED <<tasks, reminders, jobs, nOps, opsOn, orphans, nextRem,
                   cancelLast, resp>>

\* A callback that looks the reminder up within the user and the task named.
ReminderFoundScoped(rid, tid, uid) ==
    \E r \in reminders : r.id = rid /\ r.task_id = tid /\ r.user_id = uid

\* A callback that skips the reminder lookup.
ReminderFoundAlways(rid, tid, uid) == TRUE

\* session.get(Reminder, request.reminder_id): by primary key only.
ReminderFound(rid, tid, uid) == \E r \in reminders : r.id = rid

\* The status trigger_reminder answers once the publisher has returned.
TriggerStatusAlwaysOk(success) == "200"
TriggerStatus(success) == IF success = "True" THEN "200" ELSE "500"

\* The body of POST /internal/jobs/reminder-trigger.
Trigger(rid, tid, uid, buildOk, outcome) ==
    IF ~ReminderFound(rid, tid, uid) \/ ~OwnedTask(tid, uid)
    THEN /\ Serve("trigger_reminder", "404", rid, tid, uid)
         /\ UNCHANGED <<sent, consumerVars, publisherVars, calc>>
    ELSE /\ publish_reminder_event(buildOk, outcome)
         /\ Serve("trigger_reminder",
                  TriggerStatus(Returned(buildOk, outcome)), rid, tid, uid)
         /\ sent' = IF buildOk
                    THEN sent \cup {Sent(nextId, "reminders", "trigger", tid,
                                         uid, FALSE, rid)}
                    ELSE sent

\* Reminder ids a caller may name: the existing ones and an unknown one.
CallableReminderIds == {r.id : r \in reminders} \cup {0}

\* The endpoint called with an arbitrary body (it requires no token).
trigger_reminder(rid, tid, uid, buildOk, outcome) ==
    /\ Trigger(rid, tid, uid, buildOk, outcome)
    /\ UNCHANGED <<tasks, reminders, jobs, work, opsOn, orphans, nextRem,
                   cancelLast>>

\* The scheduler fires a job: it calls the endpoint with the job's data; the
\* one-shot job is gone once the callback answered 200, else it is retried.
JobFires(j, buildOk, outcome) ==
    /\ j \in jobs
    /\ Trigger(j.reminder_id, j.task_id, j.user_id, buildOk, outcome)
    /\ jobs' = IF resp'.status = "200" THEN jobs \ {j} ELSE jobs
    /\ UNCHANGED <<tasks, reminders, work, opsOn, orphans, nextRem,
                   cancelLast>>

NextBackend ==
    \/ \E u \in Users : create_task(u, FALSE)
    \/ \E u \in Users, t \in TaskIds, fk \in FKOutcomes : delete_task(u, t, fk)
    \/ \E u \in Users, t \in TaskIds, fk \in FKOutcomes :
          mcp_delete_task(u, t, fk)
    \/ \E u \in Users, t \in TaskIds, future \in BOOLEAN,
          o \in ScheduleOutcomes : create_reminder(u, t, future, o)
    \/ \E u \in Users, t \in TaskIds, future \in BOOLEAN :
          mcp_set_reminder(u, t, future)
    \/ \E u \in Users, t \in TaskIds, rid \in CallableReminderIds,
          o \in CancelOutcomes : delete_reminder(u, t, rid, o)
    \/ \E item \in work, o \in CancelOutcomes : RunCancel(item, o)
    \/ \E rid \in CallableReminderIds, t \in TaskIds, u \in Users,
          b \in BOOLEAN, o \in BrokerOutcomes :
          trigger_reminder(rid, t, u, b, o)
    \/ \E j \in jobs, b \in BOOLEAN, o \in BrokerOutcomes :
          JobFires(j, b, o)

SpecBackend == Init /\ [][NextBackend]_vars

\* ------------------------------------------------- the tasks router alone
\* Requests of both users to the tasks router, on their own tasks and on
\* each other's, with the URL user equal to the token's user or not.
NextTasks ==
    \/ \E u \in Users : create_task(u, FALSE)
    \/ \E u \in Users, t \in TaskIds : get_task(u, t)
    \/ \E u \in Users, t \in TaskIds :
          update_task(u, t, TaskUpdate("true", "weekly", TRUE))
    \/ \E u \in Users, t \in TaskIds : complete_task(u, t)
    \/ \E u \in Users, t \in TaskIds : delete_task(u, t, "cascade")
    \/ \E op \in TaskEndpoints, token \in Users, u \in Users,
          t \in TaskIds : Forbidden(op, token, u, t)

SpecTasks == Init /\ [][NextTasks]_vars

\* ------------------------------------------- one task's life, end to end
\* The task events the broker holds for delivery: built by the backend and
\* accepted by the broker.
Deliverable ==
    {m \in sent : m.topic = "task-events"
                   /\ \E p \in published : p.id = m.id /\ p.topic = m.topic}
NameOf(m) == PublishedName(m.id, m.event_type, m.is_recurring)

\* The life of task t1 of user u1: requests of its owner through the API
\* and the agent tool, the detached publications, and the deliveries of its
\* task events (at least once, in any order) to the audit subscriber.
NextLife ==
    \/ nOps < MaxLifeOps /\ opsOn["t1"] = 0 /\ create_task("u1", FALSE)
    \/ nOps < MaxLifeOps
          /\ update_task("u1", "t1", TaskUpdate("false", NoneVal, FALSE))
    \/ nOps < MaxLifeOps /\ complete_task("u1", "t1")
    \/ nOps < MaxLifeOps /\ delete_task("u1", "t1", "cascade")
    \/ nOps < MaxLifeOps /\ mcp_complete_task("u1", "t1")
    \/ \E item \in work, o \in {"200", "500"} :
          RunPublishTaskEvent(item, TRUE, o)
    \/ \E item \in work, o \in {"200", "500"} :
          RunPublishTaskUpdate(item, TRUE, o)
    \/ \E w \in Workers, m \in Deliverable : AuditReceive(w, NameOf(m))
    \/ \E w \in Workers, dbOk \in BOOLEAN : AuditCommit(w, dbOk)

SpecLife == Init /\ [][NextLife]_vars

\* Completion of task t1 through the API, recurring or not: the event is
\* published and delivered (at least once, in any order) to the audit and
\* recurring-task subscribers.
NextComplete ==
    \/ \E rec \in BOOLEAN :
          nOps < MaxLifeOps /\ opsOn["t1"] = 0 /\ create_task("u1", rec)
    \/ nOps < MaxLifeOps /\ complete_task("u1", "t1")
    \/ \E item \in work : RunPublishTaskEvent(item, TRUE, "200")
    \/ \E w \in Workers, m \in Deliverable : AuditReceive(w, NameOf(m))
    \/ \E w \in Workers, dbOk \in BOOLEAN : AuditCommit(w, dbOk)
    \/ \E w \in Workers, m \in Deliverable, now \in Clock :
          RecurringReceive(w, NameOf(m), now)
    \/ \E w \in Workers, outcome \in CreateOutcomes :
          RecurringCreateTask(w, outcome)
    \/ \E w \in Workers, dbOk \in BOOLEAN : RecurringCommit(w, dbOk)

SpecComplete == Init /\ [][NextComplete]_vars

\* ------------------------------------- the recurrence fields of a task
\* Task t1 of user u1 is created through the API and its recurrence fields
\* are changed through the API and through the agent tool.
NextRecur ==
    \/ \E rec \in BOOLEAN : opsOn["t1"] = 0 /\ create_task("u1", rec)
    \/ \E task_data \in TaskUpdates : update_task("u1", "t1", task_data)
    \/ \E r \in {NoneVal, "true", "false"},
          rule \in {NoneVal, "weekly", "yearly"} :
          mcp_update_task("u1", "t1", r, rule)

SpecRecur == Init /\ [][NextRecur]_vars

\* -------------------------------------------- toggling the completion
\* Task t1 is created and its completion toggled again and again through
\* the API; the task events are published and delivered to the recurring
\* service.
NextToggle ==
    \/ \E rec \in BOOLEAN : opsOn["t1"] = 0 /\ create_task("u1", rec)
    \/ complete_task("u1", "t1")
    \/ \E item \in work : RunPublishTaskEvent(item, TRUE, "200")
    \/ \E w \in Workers, m \in Deliverable, now \in Clock :
          RecurringReceive(w, NameOf(m), now)
    \/ \E w \in Workers : RecurringCreateTask(w, "created")
    \/ \E w \in Workers : RecurringCommit(w, TRUE)

SpecToggle == Init /\ [][NextToggle]_vars

\* ------------------------------------- redelivery of the completion event
\* Task t1, recurring, is created and completed through the API, and the
\* `completed` event is delivered to the recurring service one invocation
\* at a time: the broker delivers again after the answer to the previous
\* delivery.  Failures of the creation call and of the commit are finite:
\* one may happen only while a further delivery is left.
CompletedRecurringSent ==
    {m \in Deliverable : m.event_type = "completed" /\ m.is_recurring}
InFlight == \E w \in Workers : pc["recurring"][w] # "idle"
MayFail == nDeliv < MaxDeliveries

Redeliver ==
    /\ ~InFlight
    /\ \E w \in Workers, m \in CompletedRecurringSent, now \in Clock :
          RecurringReceive(w, NameOf(m), now)
CallAnswered ==
    \E w \in Workers, outcome \in CreateOutcomes :
       (outcome = "created" \/ MayFail) /\ RecurringCreateTask(w, outcome)
CommitAnswered ==
    \E w \in Workers, dbOk \in BOOLEAN :
       (dbOk \/ MayFail) /\ RecurringCommit(w, dbOk)

NextRedeliver ==
    \/ nOps < MaxLifeOps /\ opsOn["t1"] = 0 /\ create_task("u1", TRUE)
    \/ nOps < MaxLifeOps /\ complete_task("u1", "t1")
    \/ \E item \in work : RunPublishTaskEvent(item, TRUE, "200")
    \/ \E item \in work : RunPublishTaskUpdate(item, TRUE, "200")
    \/ Redeliver
    \/ CallAnswered
    \/ CommitAnswered

SpecRedeliver ==
    /\ Init /\ [][NextRedeliver]_vars
    /\ WF_vars(Redeliver) /\ WF_vars(CallAnswered) /\ WF_vars(CommitAnswered)

NextPub ==
    \/ \E k \in EventKinds, b \in BOOLEAN, o \in BrokerOutcomes :
          publish_task_event(k, b, o) /\ UNCHANGED backendVars
    \/ \E k \in EventKinds, b \in BOOLEAN, o \in BrokerOutcomes :
          publish_task_update_event(k, b, o) /\ UNCHANGED backendVars
    \/ \E b \in BOOLEAN, o \in BrokerOutcomes :
          publish_reminder_event(b, o) /\ UNCHANGED backendVars

SpecPub == Init /\ [][NextPub]_vars

\* ------------------------------------------- one reminder, end to end
\* The reminder events the broker holds for delivery.
DeliverableReminders ==
    {m \in sent : m.topic = "reminders"
                   /\ \E p \in published : p.id = m.id /\ p.topic = m.topic}
ReminderNameOf(m) == PublishedReminderName(m.id, m.reminder)

\* User u1 creates task t1 and reminders for it; the scheduler fires the
\* jobs and fires again those whose callback did not answer 200; the broker
\* delivers the reminder events it accepted to the notification service.
NextReminder ==
    \/ opsOn["t1"] = 0 /\ create_task("u1", FALSE)
    \/ \E o \in {"200", "500"} : create_reminder("u1", "t1", TRUE, o)
    \/ \E j \in jobs, o \in BrokerOutcomes : JobFires(j, TRUE, o)
    \/ \E w \in Workers, m \in DeliverableReminders :
          NotificationReceive(w, ReminderNameOf(m))
    \/ \E w \in Workers, dbOk \in BOOLEAN : NotificationCommit(w, dbOk)

SpecReminder == Init /\ [][NextReminder]_vars

\* ------------------------------------------------------ consumers together
Next ==
    \/ \E w \in Workers, e \in TaskEnvelopes : AuditReceive(w, e)
    \/ \E w \in Workers, dbOk \in BOOLEAN : AuditCommit(w, dbOk)
    \/ \E w \in Workers, e \in TaskEnvelopes, now \in Clock :
          RecurringReceive(w, e, now)
    \/ \E w \in Workers, outcome \in CreateOutcomes :
          RecurringCreateTask(w, outcome)
    \/ \E w \in Workers, dbOk \in BOOLEAN : RecurringCommit(w, dbOk)
    \/ \E w \in Workers, e \in ReminderEnvelopes : NotificationReceive(w, e)
    \/ \E w \in Workers, dbOk \in BOOLEAN : NotificationCommit(w, dbOk)

Spec == Init /\ [][Next]_vars

\* ----------------------------------------------- compute_next_due_date alone
\* Calendar dates of the years in DueYears, with the days that matter for
\* month ends, at the times in DueTimes.
DueYears == {2000, 2026, 2028, 2100}
DueDays == {1, 15, 28, 29, 30, 31}
DueTimes == {"00:00:00Z", "09:30:00+05:30", "18:45:10Z", "23:59:59"}
DueDates ==
    {DateTime(y, m, d, t) : y \in DueYears, m \in 1..12,
                            d \in DueDays, t \in DueTimes}
\* Values of current_due_at: a parseable text, None, or a garbled text (a
\* date that does not exist is one).
DueInputs ==
    {dt \in DueDates : dt.d <= DaysInMonth(dt.y, dt.m)}
        \cup {NoDate, GarbledDate}
\* Values of recurrence_rule: the three rules, an unknown text, None.
DueRules == {"daily", "weekly", "monthly", "yearly", NoneVal}
\* Values of datetime.now(timezone.utc).
DueClock == {DateTime(2026, 12, 31, "12:00:00+00:00"),
             DateTime(2028, 2, 23, "12:00:00+00:00")}

InitDue ==
    /\ ledger = [s \in Services |-> {}]
    /\ auditStore = <<>>
    /\ successors = <<>>
    /\ createCalls = 0
    /\ notifLog = <<>>
    /\ pc = [s \in Services |-> [w \in Workers |-> "idle"]]
    /\ env = [s \in Services |-> [w \in Workers |-> NoEnvelope]]
    /\ wnow = [s \in Services |-> [w \in Workers |-> NoDate]]
    /\ nDeliv = 0
    /\ last = Step("none", "init", NoEnvelope, "-", "PENDING")
    /\ published = {}
    /\ brokerCalls = 0
    /\ nPublish = 0
    /\ nextId = 1
    /\ pubLast = [op |-> "init", returned |-> "none", status |-> "none"]
    /\ tasks = [t \in TaskIds |-> NoTask]
    /\ reminders = {}
    /\ jobs = {}
    /\ work = {}
    /\ sent = {}
    /\ nOps = 0
    /\ opsOn = [t \in TaskIds |-> 0]
    /\ orphans = {}
    /\ nextRem = 1
    /\ cancelLast = [job |-> <<"none", 0>>, existed |-> FALSE, status |-> "none",
                     returned |-> "none"]
    /\ resp = NoResponse
    /\ \E c \in DueInputs, r \in DueRules, n \in DueClock :
          calc = [fn |-> "compute_next_due_date", current_due_at |-> c,
                  recurrence_rule |-> r, now |-> n, result |-> NoDate,
                  returned |-> FALSE]

\* The call returns.
ComputeNextDueDate ==
    /\ calc.fn = "compute_next_due_date" /\ ~calc.returned
    /\ calc' = [calc EXCEPT
                  !.result = compute_next_due_date(calc.current_due_at,
                                                   calc.recurrence_rule,
                                                   calc.now),
                  !.returned = TRUE]
    /\ UNCHANGED <<consumerVars, publisherVars, backendVars>>

NextDue == ComputeNextDueDate

SpecDue == InitDue /\ [][NextDue]_vars

\* ================================================================== claims
\* A step in which a consumer endpoint takes a delivery.
ReceiveStep == last'.op = "receive" /\ nDeliv' = nDeliv + 1

\* Nothing a consumer persists or emits changes in the step.
NoEffect ==
    /\ ledger' = ledger
    /\ auditStore' = auditStore
    /\ successors' = successors
    /\ createCalls' = createCalls
    /\ notifLog' = notifLog

\* Number of rows of a store that were built from event x.
CountFrom(store, x) ==
    Cardinality({i \in 1..Len(store) : store[i].from_event = x})

EventUUIDs == {"e1", "e2", "e3"}

\* C1: a delivery whose envelope id is already in the consumer's ledger is
\* answered SUCCESS at once and changes nothing: no audit entry, no ledger
\* row, no task-creation call, no notification.
C1_Idempotence ==
    [][(ReceiveStep /\ ParsesAsUUID(Env(last'.env).id)
          /\ UUID(Env(last'.env).id) \in ledger[last'.svc])
       => (last'.result = "SUCCESS" /\ NoEffect /\ pc' = pc)]_vars

C1_Witness ==
    /\ last.svc = "recurring" /\ last.op = "receive"
    /\ Env(last.env).id = "E1" /\ last.result = "SUCCESS"
    /\ "e1" \in ledger["recurring"] /\ Len(successors) = 1

\* C2: the audit ledger holds id X exactly when one audit entry built from X
\* is stored (and none otherwise); a failed commit persists neither, and the
\* envelope is then still handled as new.
C2_AuditAtomic ==
    /\ [](\A x \in EventUUIDs :
            CountFrom(auditStore, x) = IF x \in ledger["audit"] THEN 1 ELSE 0)
    /\ [][(last'.svc = "audit" /\ last'.op = "commit" /\ pc' # pc
            /\ last'.result = "EXCEPTION")
          => (NoEffect
              /\ (UUID(Env(last'.env).id) \notin ledger["audit"]
                    => AuditPrefix(Env(last'.env)) = "COMMIT"))]_vars

C2_Witness ==
    /\ last.svc = "audit" /\ last.op = "commit" /\ last.input = "db_fail"
    /\ last.result = "EXCEPTION" /\ nDeliv = 2
    /\ auditStore = <<>> /\ ledger["audit"] = {}

\* C4: an envelope whose id is absent or empty is answered DROP, and the
\* step changes no store, starts no handler work and makes no outbound call.
C4_NoIdDropped ==
    [][(ReceiveStep /\ Env(last'.env).id \in {NoneVal, ""})
       => (last'.result = "DROP" /\ NoEffect /\ pc' = pc
           /\ brokerCalls' = brokerCalls)]_vars

C4_Witness ==
    /\ last.svc = "notification" /\ last.op = "receive"
    /\ Env(last.env).id = "" /\ last.result = "DROP"
    /\ notifLog = <<>> /\ ledger["notification"] = {}

\* C3: a completed event of a recurring task with a rule yields exactly one
\* successor: never more than one, and one once the event is in the ledger.
C3_ExactlyOneSuccessor ==
    /\ CountFrom(successors, "e1") <= 1
    /\ ("e1" \in ledger["recurring"] => CountFrom(successors, "e1") = 1)

C6_AlwaysTriState == last.result # "EXCEPTION"

\* The fields each consumer reads from the payload are all present.
ValidPayload(svc, e) ==
    IF svc = "notification"
    THEN /\ Truthy(e.data.reminder_id) /\ Truthy(e.data.task_id)
         /\ Truthy(e.data.user_id) /\ Truthy(e.data.title)
    ELSE /\ Truthy(e.data.event_type) /\ Truthy(e.data.task_id)
         /\ Truthy(e.data.user_id)
         /\ (svc = "audit" => e.data.event_type \in VALID_EVENT_TYPES)

\* C7: in every consumer a non-duplicate envelope whose payload lacks the
\* consumer's required fields is answered DROP, and no ledger row is written
\* for it.  (Stated for payloads that are objects or absent; a null payload
\* raises instead, see C6.)
C7_InvalidPayloadDropped ==
    [][(ReceiveStep /\ ParsesAsUUID(Env(last'.env).id)
          /\ UUID(Env(last'.env).id) \notin ledger[last'.svc]
          /\ Env(last'.env).data.shape # "null"
          /\ ~ValidPayload(last'.svc, Env(last'.env)))
       => (last'.result = "DROP" /\ ledger' = ledger /\ pc' = pc)]_vars

PublishStep == nPublish' = nPublish + 1

\* C9: a publish operation never raises to its caller: whatever the broker
\* call does (200, another status, transport error) and even when building
\* the payload fails, it returns a boolean, and the boolean is true exactly
\* when the broker answered 200.
C9_PublishNeverRaises ==
    pubLast.op # "init" =>
        /\ pubLast.returned \in {"True", "False"}
        /\ (pubLast.returned = "True" <=> pubLast.status = "200")

C9_Witness ==
    /\ pubLast.op = "publish_reminder_event"
    /\ pubLast.status = "unreachable" /\ pubLast.returned = "False"
    /\ nPublish = 2 /\ Cardinality(published) = 1

\* C10 as stated: the number of broker calls made by the publisher equals
\* the number of publish invocations.
C10_CallsEqualInvocations == brokerCalls = nPublish

\* C10, corrected: one publish invocation performs at most one outbound
\* call: exactly one when the envelope was built, whatever the broker then
\* answers (no re-send after a failure), and none when building the payload
\* fails; so the number of broker calls never exceeds the invocations.
C10_AtMostOneCall ==
    /\ [](brokerCalls <= nPublish)
    /\ [][PublishStep =>
            brokerCalls' = brokerCalls
                + (IF pubLast'.status = "build_error" THEN 0 ELSE 1)]_vars

C10_Witness ==
    /\ pubLast.status = "500" /\ pubLast.returned = "False"
    /\ nPublish = 3 /\ brokerCalls = 2

\* A step in which cancel_reminder_job ran: awaited by delete_reminder or as
\* a coroutine started by delete_task.
CancelStep ==
    \/ nOps' = nOps + 1 /\ resp'.op = "delete_reminder" /\ resp'.status = "200"
    \/ \E w \in work : w.kind = "cancel" /\ w \notin work'

\* A step in which the reminder-trigger callback was served.
TriggerStep == nOps' = nOps + 1 /\ resp'.op = "trigger_reminder"

\* C15 as stated: once delete_task and the cancels it started have finished,
\* the scheduler holds no job reminder-<id> of a reminder that belonged to a
\* deleted task.
C15_DeleteCancelsJobs ==
    (\A w \in work : w.kind # "cancel") =>
        \A j \in jobs : \A id \in orphans : j.name # JobName(id)

\* C16 as stated: cancelling a job the scheduler does not hold reports
\* success and leaves the scheduler as it was.
C16_CancelAlwaysSucceeds ==
    [][(CancelStep /\ ~cancelLast'.existed)
       => (cancelLast'.returned = "True" /\ jobs' = jobs)]_vars

\* C16, corrected: whenever the scheduler answers the request (204 or 404),
\* cancel_reminder_job reports success, the job is absent afterwards, and a
\* cancel of a job the scheduler did not hold leaves the scheduler unchanged;
\* so a repeated cancel ends in the state of a single one.
C16_CancelIdempotent ==
    [][(CancelStep /\ cancelLast'.status \in {"204", "404"})
       => /\ cancelLast'.returned = "True"
          /\ \A j \in jobs' : j.name # cancelLast'.job
          /\ (~cancelLast'.existed => jobs' = jobs)]_vars

C16_Witness ==
    /\ cancelLast.status = "404" /\ cancelLast.returned = "True"
    /\ \E id \in orphans : cancelLast.job = JobName(id)
    /\ \A w \in work : w.kind # "cancel"

\* C17 as stated: on every path that creates a reminder, no reminder row is
\* persisted (and no job scheduled) whose remind_at was not later than the
\* clock at creation.
C17_PastReminderRejected ==
    /\ \A r \in reminders : r.future
    /\ \A j \in jobs : \A r \in reminders : JobName(r.id) = j.name => r.future

\* C18: when the callback finds no reminder with the id given, or no task
\* with the task id given for the user given, it answers 404 and publishes
\* nothing.
C18_NotFoundNoEvent ==
    [][(TriggerStep
          /\ (~(\E r \in reminders : r.id = resp'.reminder)
                \/ ~OwnedTask(resp'.task, resp'.user)))
       => /\ resp'.status = "404"
          /\ published' = published /\ brokerCalls' = brokerCalls
          /\ nPublish' = nPublish /\ sent' = sent]_vars

C18_Witness ==
    /\ resp.op = "trigger_reminder" /\ resp.status = "404"
    /\ \E r \in reminders : r.id = resp.reminder
    /\ tasks[resp.task] # NoTask /\ tasks[resp.task].user # resp.user
    /\ nPublish = 0

\* C19 as stated: the callback attempts a publication only when the
\* reminder named belongs to the user and to the task named in the request.
C19_TriggerUserScoped ==
    [][(TriggerStep /\ resp'.status # "404")
       => ReminderFoundScoped(resp'.reminder, resp'.task, resp'.user)]_vars

\* C20: when the reminder and the task are found, the callback answers 200
\* exactly when publish_reminder_event returned True, and 500 when it
\* returned False.
C20_TriggerStatusFollowsPublish ==
    [][(TriggerStep
          /\ (\E r \in reminders : r.id = resp'.reminder)
          /\ OwnedTask(resp'.task, resp'.user))
       => /\ nPublish' = nPublish + 1
          /\ pubLast'.op = "publish_reminder_event"
          /\ (pubLast'.returned = "True" => resp'.status = "200")
          /\ (pubLast'.returned = "False" => resp'.status = "500")
          /\ resp'.status \in {"200", "500"}]_vars

C20_Witness ==
    /\ resp.op = "trigger_reminder" /\ resp.status = "500"
    /\ pubLast.op = "publish_reminder_event" /\ pubLast.returned = "False"
    /\ pubLast.status = "204"

\* C11: every envelope gets its id once, when it is published, and no two
\* published envelopes share an id, whatever their topics (task event and
\* task-update event of one mutation, events of different mutations,
\* reminder events of repeated callbacks).
C11_EnvelopeIdsUnique ==
    /\ \A p, q \in published : p.id = q.id => p = q
    /\ \A p \in published : p.id < nextId

C11_Witness ==
    /\ Cardinality(published) = 3
    /\ \E p, q \in published :
          /\ p.topic = "task-events" /\ q.topic = "task-updates"
          /\ p.kind = q.kind
    /\ \E p \in published : p.topic = "reminders"

\* Audit entries recorded for task t.
AuditEntriesOf(t) ==
    {i \in 1..Len(auditStore) : auditStore[i].task_id = UUID(t)}

\* The life of t1 has settled: no publication is pending, every task event
\* handed to the publisher was accepted by the broker and has been processed
\* by the audit subscriber, and no audit worker is in the middle of one.
LifeSettled ==
    /\ opsOn["t1"] > 0
    /\ work = {}
    /\ \A w \in Workers : pc["audit"][w] = "idle"
    /\ \A m \in sent :
          m.topic = "task-events" =>
             /\ m \in Deliverable
             /\ UUID(IdText(m.id)) \in ledger["audit"]

\* C12: after N lifecycle operations on task t1, each of whose task events
\* was delivered to the audit subscriber (duplicates and reordering
\* allowed), the audit store holds exactly N entries for t1.
C12_OneEntryPerOperation ==
    LifeSettled => Cardinality(AuditEntriesOf("t1")) = opsOn["t1"]

\* C13: the audit store is append-only.  In every step, the deletion of the
\* task included, every entry present before the step is present after it
\* at the same place with the same fields, and no entry is removed.
C13_AuditAppendOnly ==
    [][/\ Len(auditStore') >= Len(auditStore)
       /\ \A i \in 1..Len(auditStore) : auditStore'[i] = auditStore[i]]_vars

\* Task t1 was deleted and the entries of its creation and of its deletion
\* are both in the store.
C13_Witness ==
    /\ tasks["t1"] = NoTask
    /\ \E i, j \in AuditEntriesOf("t1") :
          /\ auditStore[i].event_type = "created"
          /\ auditStore[j].event_type = "deleted"


\* Task events `completed` handed to the publisher for a task whose
\* is_recurring flag is false.
CompletedOnce ==
    {m \in sent : /\ m.topic = "task-events"
                   /\ m.event_type = "completed"
                   /\ ~tasks[m.task].is_recurring}

\* C14: completing a task whose is_recurring flag is false gives, however
\* often its event is delivered, no task-creation call by the recurring
\* handler (no worker is ever about to make one for it, no successor comes
\* from it), and, once the audit handler has processed it, exactly one audit
\* entry from it, of kind `completed`.
C14_CompletedOnceNoSuccessor ==
    \A m \in CompletedOnce :
       LET x == UUID(IdText(m.id)) IN
       /\ \A w \in Workers :
             ~(pc["recurring"][w] = "call" /\ env["recurring"][w] = NameOf(m))
       /\ CountFrom(successors, x) = 0
       /\ CountFrom(auditStore, x) <= 1
       /\ x \in ledger["audit"] =>
             \E i \in 1..Len(auditStore) :
                /\ auditStore[i].from_event = x
                /\ auditStore[i].event_type = "completed"
                /\ auditStore[i].task_id = UUID(m.task)

\* The `completed` event of a non-recurring task was processed by both
\* subscribers: one audit entry, a ledger row in the recurring service, and
\* no creation call at all.
C14_Witness ==
    \E m \in CompletedOnce :
       LET x == UUID(IdText(m.id)) IN
       /\ x \in ledger["audit"] /\ x \in ledger["recurring"]
       /\ CountFrom(auditStore, x) = 1
       /\ createCalls = 0


\* The calendar: the number of the last day of month m of year y.
MonthLengths == <<31, 28, 31, 30, 31, 30, 31, 31, 30, 31, 30, 31>>
LastDay(y, m) ==
    IF m = 2 /\ y % 4 = 0 /\ (y % 100 # 0 \/ y % 400 = 0) THEN 29
    ELSE MonthLengths[m]

\* The time of day and UTC offset a time text denotes ("Z" is offset zero).
TimeDenoted(t) ==
    IF t \in {"00:00:00Z", "00:00:00+00:00"} THEN <<0, 0, 0, "+00:00">>
    ELSE IF t \in {"18:45:10Z", "18:45:10+00:00"} THEN <<18, 45, 10, "+00:00">>
    ELSE IF t = "09:30:00+05:30" THEN <<9, 30, 0, "+05:30">>
    ELSE IF t = "12:00:00+00:00" THEN <<12, 0, 0, "+00:00">>
    ELSE IF t = "23:59:59" THEN <<23, 59, 59, "naive">>
    ELSE <<t>>

\* compute_next_due_date has returned for a parseable due time under rule.
Computed(rule) ==
    /\ calc.fn = "compute_next_due_date" /\ calc.returned
    /\ calc.recurrence_rule = rule
    /\ calc.current_due_at.kind = "date"

\* C21: under rule monthly the result lies in the following calendar month
\* (January of the next year after December), on the same day of the month
\* or, when that month has no such day, on its last day, at the same time:
\* 31 January 2026 gives 28 February 2026, 31 January 2028 gives 29 February.
C21_MonthlyClamped ==
    Computed("monthly") =>
       LET c == calc.current_due_at
           r == calc.result
           y == IF c.m = 12 THEN c.y + 1 ELSE c.y
           m == IF c.m = 12 THEN 1 ELSE c.m + 1
       IN  /\ r.kind = "date" /\ r.y = y /\ r.m = m
           /\ r.d = IF c.d <= LastDay(y, m) THEN c.d ELSE LastDay(y, m)
           /\ TimeDenoted(r.t) = TimeDenoted(c.t)
           /\ (c.y = 2026 /\ c.m = 1 /\ c.d = 31) =>
                 (r.y = 2026 /\ r.m = 2 /\ r.d = 28)
           /\ (c.y = 2028 /\ c.m = 1 /\ c.d = 31) =>
                 (r.y = 2028 /\ r.m = 2 /\ r.d = 29)
           /\ (c.y = 2026 /\ c.m = 12 /\ c.d = 31) =>
                 (r.y = 2027 /\ r.m = 1 /\ r.d = 31)

\* "2026-01-31T00:00:00Z" under monthly has returned 28 February 2026.
C21_Witness ==
    /\ Computed("monthly")
    /\ calc.current_due_at = DateTime(2026, 1, 31, "00:00:00Z")
    /\ calc.result = DateTime(2026, 2, 28, "00:00:00+00:00")

\* The number of the day y-m-d, counted from 1 January 2000.
DaysBeforeMonth == <<0, 31, 59, 90, 120, 151, 181, 212, 243, 273, 304, 334>>
DayNumber(y, m, d) ==
    365 * (y - 2000)
      + Cardinality({k \in 2000..(y - 1) : LastDay(k, 2) = 29})
      + DaysBeforeMonth[m] + (IF m > 2 /\ LastDay(y, 2) = 29 THEN 1 ELSE 0)
      + d

\* C22: the result is the base plus exactly 7 days under rule weekly and
\* plus exactly 1 day under rule daily and under every rule value that is
\* not daily, weekly or monthly, at the same time of day; the base is the
\* parsed due time, or the invocation time when no due time is given.
C22_DailyWeeklyOffsets ==
    (/\ calc.fn = "compute_next_due_date" /\ calc.returned
     /\ calc.recurrence_rule # "monthly"
     /\ calc.current_due_at.kind \in {"date", "none"}) =>
       LET base == IF calc.current_due_at.kind = "date"
                   THEN calc.current_due_at ELSE calc.now
           r == calc.result
           n == IF calc.recurrence_rule = "weekly" THEN 7 ELSE 1
       IN  /\ r.kind = "date"
           /\ r.d <= LastDay(r.y, r.m)
           /\ DayNumber(r.y, r.m, r.d) = DayNumber(base.y, base.m, base.d) + n
           /\ TimeDenoted(r.t) = TimeDenoted(base.t)

\* No due time, rule weekly, called on 23 February 2028: 1 March 2028 is
\* returned; and an unknown rule has returned the day after a due time.
C22_Witness ==
    /\ calc.fn = "compute_next_due_date" /\ calc.returned
    /\ \/ /\ calc.recurrence_rule = "weekly"
          /\ calc.current_due_at = NoDate
          /\ calc.now = DateTime(2028, 2, 23, "12:00:00+00:00")
          /\ calc.result = DateTime(2028, 3, 1, "12:00:00+00:00")
       \/ /\ calc.recurrence_rule = "yearly"
          /\ calc.current_due_at = DateTime(2100, 2, 28, "18:45:10Z")
          /\ calc.result = DateTime(2100, 3, 1, "18:45:10+00:00")

\* A request to the tasks router is answered.
TaskEndpointStep == nOps' = nOps + 1 /\ resp'.op \in TaskEndpoints

\* The step leaves every table, the scheduler and the outbound work alone.
NothingTouched ==
    UNCHANGED <<tasks, reminders, jobs, work, sent, opsOn, orphans>>

RecurringStepOn(op) ==
    /\ last'.svc = "recurring" /\ last'.op = op
    /\ ParsesAsUUID(Env(last'.env).id)
    /\ UUID(Env(last'.env).id) \notin ledger["recurring"]

\* kind == completed and is_recurring == true
CompletedRecurring(e) ==
    e.data.event_type = "completed" /\ e.data.task_data.is_recurring = "true"

\* C24: every non-duplicate task event that is not a completed recurring
\* one goes on to the ledger commit without a creation call, and its commit,
\* the database accepting it, writes the ledger row and answers SUCCESS.
C24_FilteredAlwaysSuccess ==
    [][/\ (RecurringStepOn("receive") /\ ~CompletedRecurring(Env(last'.env)))
          => /\ last'.result = "PENDING"
             /\ \E w \in Workers : pc'["recurring"][w] = "commit"
                                      /\ pc["recurring"][w] = "idle"
             /\ createCalls' = createCalls /\ successors' = successors
       /\ (/\ RecurringStepOn("commit") /\ last'.input = "db_ok"
           /\ ~CompletedRecurring(Env(last'.env)))
          => /\ last'.result = "SUCCESS"
             /\ UUID(Env(last'.env).id) \in ledger'["recurring"]
             /\ createCalls' = createCalls /\ successors' = successors]_vars

\* C25: a non-duplicate `completed` event of a recurring task that carries
\* no recurrence rule goes on to the ledger commit without a creation call
\* and is never answered RETRY or DROP; its commit, the database accepting
\* it, writes the ledger row and answers SUCCESS.
C25_NoRuleSkipped ==
    [][(/\ last'.svc = "recurring"
        /\ ParsesAsUUID(Env(last'.env).id)
        /\ UUID(Env(last'.env).id) \notin ledger["recurring"]
        /\ CompletedRecurring(Env(last'.env))
        /\ Env(last'.env).data.task_data.recurrence_rule \in {NoneVal, ""})
       => /\ last'.op \in {"receive", "commit"}
          /\ last'.result \notin {"RETRY", "DROP"}
          /\ createCalls' = createCalls /\ successors' = successors
          /\ last'.op = "receive"
               => /\ last'.result = "PENDING"
                  /\ \E w \in Workers : /\ pc["recurring"][w] = "idle"
                                         /\ pc'["recurring"][w] = "commit"
          /\ (last'.op = "commit" /\ last'.input = "db_ok")
               => /\ last'.result = "SUCCESS"
                  /\ UUID(Env(last'.env).id) \in ledger'["recurring"]]_vars

\* The rule-less `completed` event of a recurring task was answered SUCCESS
\* with its ledger row written and no creation call made.
C25_Witness ==
    /\ last.svc = "recurring" /\ last.op = "commit" /\ last.result = "SUCCESS"
    /\ last.env = "task e3 completed no rule"
    /\ "e3" \in ledger["recurring"]
    /\ createCalls = 0

\* C26: the successor the recurring handler asks for copies title,
\* description, priority and tags of the snapshot, is due at the next due
\* time of the snapshot's due time under its rule (7 days later for the
\* weekly rule in use), is recurring under the same rule and is requested
\* for the user of the event; no step of the handler changes the original
\* task or any other row of the backend.
C26_SuccessorCopiesSnapshot ==
    [][last'.svc = "recurring" /\ last' # last =>
         /\ tasks' = tasks /\ reminders' = reminders /\ jobs' = jobs
         /\ Len(successors') > Len(successors) =>
               LET p == successors'[Len(successors')]
                   e == Env(last'.env)
                   snap == e.data.task_data
               IN  /\ last'.op = "call" /\ createCalls' = createCalls + 1
                   /\ Len(successors') = Len(successors) + 1
                   /\ p.title = snap.title /\ p.description = snap.description
                   /\ p.priority = snap.priority /\ p.tags = snap.tags
                   /\ p.is_recurring = TRUE
                   /\ p.recurrence_rule = snap.recurrence_rule
                   /\ p.user_id = e.data.user_id
                   /\ p.from_event = UUID(e.id)
                   /\ snap.recurrence_rule = "weekly" /\ snap.due_at.kind = "date"
                   /\ DayNumber(p.due_at.y, p.due_at.m, p.due_at.d)
                        = DayNumber(snap.due_at.y, snap.due_at.m, snap.due_at.d) + 7
                   /\ TimeDenoted(p.due_at.t) = TimeDenoted(snap.due_at.t)]_vars

\* Task t1, recurring, was completed through the API; its successor was
\* requested, due 7 February 2026, and t1 is still there, completed.
C26_Witness ==
    /\ tasks["t1"] = Task("u1", TRUE, TRUE)
    /\ Len(successors) = 1
    /\ successors[1].due_at = Date(2026, 2, 7)
    /\ successors[1].user_id = "u1"
    /\ last.svc = "recurring" /\ last.op = "call"

\* A completed-recurring event is with the broker.
Awaiting == CompletedRecurringSent # {}

\* The recurring service has just answered SUCCESS for such an event, and
\* holds the ledger row of every one of them.
Settled ==
    /\ Awaiting
    /\ \A m \in CompletedRecurringSent :
          UUID(IdText(m.id)) \in ledger["recurring"]
    /\ last.svc = "recurring" /\ last.result = "SUCCESS"
    /\ \E m \in CompletedRecurringSent : last.env = NameOf(m)

\* C27: with redelivery after every answer that is not SUCCESS and finitely
\* many failures of the creation call and of the commit, a completed
\* recurring event the broker holds is eventually answered SUCCESS with its
\* ledger row written, and no creation call is made for an event whose
\* ledger row is written.
C27_RedeliveryLeadsToSuccess ==
    /\ Awaiting ~> Settled
    /\ [][(last'.svc = "recurring" /\ createCalls' # createCalls)
            => UUID(Env(last'.env).id) \notin ledger["recurring"]]_vars

\* The event was answered RETRY once, delivered again and then answered
\* SUCCESS, its ledger row written.
C27_Witness ==
    /\ Settled
    /\ createCalls = 2 /\ nDeliv = 2
    /\ last.op = "commit"

\* C28: over any sequence of deliveries (redelivery after a failed ledger
\* commit and concurrent deliveries included) the notification log holds at
\* most one line per envelope id, and exactly one for an id whose ledger
\* row is written.
C28_OneLinePerEnvelope ==
    \A x \in EventUUIDs :
       /\ CountFrom(notifLog, x) <= 1
       /\ x \in ledger["notification"] => CountFrom(notifLog, x) = 1

\* The audit handler takes an event with a usable id that is not in its
\* ledger.
AuditTakes ==
    /\ ReceiveStep /\ last'.svc = "audit"
    /\ ParsesAsUUID(Env(last'.env).id)
    /\ UUID(Env(last'.env).id) \notin ledger["audit"]

\* The kind is not one of the four, or the task id or the user id is missing.
Incomplete(e) ==
    \/ e.data.event_type \notin {"created", "updated", "completed", "deleted"}
    \/ e.data.task_id \in {NoneVal, ""}
    \/ e.data.user_id \in {NoneVal, ""}

\* C29: a non-duplicate event whose kind is not created, updated, completed
\* or deleted, or whose task id or user id is missing, is answered DROP by
\* the audit handler with the audit store and the ledger unchanged (so a
\* redelivery meets the same state and is answered DROP again).
C29_IncompleteDropped ==
    [][(AuditTakes /\ Incomplete(Env(last'.env)))
       => /\ last'.result = "DROP"
          /\ auditStore' = auditStore /\ ledger' = ledger]_vars

\* An event the audit handler accepts but for its timestamp, which is
\* missing or is not an ISO text.
ValidButTimestamp(e) ==
    /\ e.data.shape = "dict"
    /\ ~Incomplete(e)
    /\ ParsesAsUUID(e.data.task_id)
    /\ e.data.timestamp # "ts"

\* C30: a non-duplicate event that is valid but for a missing or malformed
\* timestamp is taken by the audit handler to its commit, and the commit,
\* the database accepting it, writes the ledger row and one audit entry
\* whose timestamp is the receipt time, and answers SUCCESS.
C30_BadTimestampStillRecorded ==
    [][(/\ last'.svc = "audit" /\ last' # last
        /\ ParsesAsUUID(Env(last'.env).id)
        /\ UUID(Env(last'.env).id) \notin ledger["audit"]
        /\ ValidButTimestamp(Env(last'.env)))
       => /\ last'.op = "receive"
               => /\ last'.result = "PENDING"
                  /\ \E w \in Workers : /\ pc["audit"][w] = "idle"
                                         /\ pc'["audit"][w] = "commit"
          /\ (last'.op = "commit" /\ last'.input = "db_ok")
               => /\ last'.result = "SUCCESS"
                  /\ UUID(Env(last'.env).id) \in ledger'["audit"]
                  /\ Len(auditStore') = Len(auditStore) + 1
                  /\ LET a == auditStore'[Len(auditStore')] IN
                        /\ a.from_event = UUID(Env(last'.env).id)
                        /\ a.timestamp = "receipt"
                        /\ a.event_type = Env(last'.env).data.event_type]_vars

\* The event with the garbled timestamp and the one without a timestamp
\* were recorded, each with the receipt time.
C30_Witness ==
    /\ last.svc = "audit" /\ last.op = "commit" /\ last.result = "SUCCESS"
    /\ Env(last.env).data.timestamp \in {"garbled", NoneVal}
    /\ Len(auditStore) = 1
    /\ auditStore[1].from_event = "e3" /\ auditStore[1].timestamp = "receipt"

\* A create, update or complete request was answered with success.
MutationAnswered ==
    /\ nOps' = nOps + 1
    /\ resp'.op \in {"create_task", "update_task", "complete_task"}
    /\ resp'.status \in {"200", "201"}

\* A publish_* coroutine ran.
PublicationStep == nPublish' = nPublish + 1

\* C31: the step that answers a create, update or complete request commits
\* the task row and starts the detached publication without calling the
\* publisher; the publication runs in later steps only, for a request
\* already answered, and whatever its outcome it leaves the task rows and
\* the answer as they were.
C31_CommitBeforePublish ==
    [][/\ MutationAnswered
          => /\ tasks'[resp'.task] # NoTask
             /\ tasks' # tasks \/ resp'.op = "update_task"
             /\ \E item \in work' \ work :
                   /\ item.kind = "publish" /\ item.stage = 1
                   /\ item.task = resp'.task /\ item.n = nOps
             /\ nPublish' = nPublish /\ brokerCalls' = brokerCalls
             /\ sent' = sent /\ published' = published
       /\ PublicationStep
          => /\ tasks' = tasks /\ resp' = resp /\ nOps' = nOps
             /\ \E item \in work \ work' : item.n < nOps]_vars

\* A task was completed and answered 200, and the publication of its
\* event then failed at the broker; and one whose publication has not run.
C31_Witness ==
    /\ resp.op = "complete_task" /\ resp.status = "200"
    /\ tasks["t1"].completed
    /\ pubLast.op = "publish_task_event" /\ pubLast.returned = "False"
    /\ \E item \in work : item.kind = "publish" /\ item.stage = 1

\* The kind a task API request publishes under.
KindOf(r, completed) ==
    CASE r.op = "create_task" -> "created"
      [] r.op = "update_task" -> "updated"
      [] r.op = "delete_task" -> "deleted"
      [] r.op = "complete_task" ->
            IF completed THEN "completed" ELSE "updated"

\* A request to one of the four mutating task endpoints was answered with
\* success.
TaskMutated ==
    /\ nOps' = nOps + 1
    /\ resp'.op \in {"create_task", "update_task", "complete_task",
                     "delete_task"}
    /\ resp'.status \in {"200", "201", "204"}

\* The detached publications that left stage st in this step.
Left(st) ==
    {item \in work \ work' : item.kind = "publish" /\ item.stage = st}

\* C32: a successful create, update, complete or delete starts exactly one
\* detached publication, of the kind of the mutation and for its task; the
\* publication makes one publish_task_event attempt, then, whatever that
\* attempt returned, one publish_task_update_event attempt with the same
\* kind and task id, and is then over; no other attempt is made.
C32_BothEventsAttempted ==
    [][/\ TaskMutated
          => \E item \in work' \ work :
                /\ {x \in work' \ work : x.kind = "publish"} = {item}
                /\ item.stage = 1 /\ item.n = nOps
                /\ item.task = resp'.task /\ item.user = resp'.user
                /\ item.event_type =
                      KindOf(resp', IF resp'.op = "complete_task"
                                    THEN tasks'[resp'.task].completed
                                    ELSE FALSE)
       /\ \A item \in Left(1) :
             /\ nPublish' = nPublish + 1
             /\ pubLast'.op = "publish_task_event"
             /\ sent' \ sent = {Sent(nextId, "task-events", item.event_type,
                                     item.task, item.user,
                                     item.is_recurring, 0)}
             /\ [item EXCEPT !.stage = 2] \in work'
       /\ \A item \in Left(2) :
             /\ nPublish' = nPublish + 1
             /\ pubLast'.op = "publish_task_update_event"
             /\ sent' \ sent = {Sent(nextId, "task-updates", item.event_type,
                                     item.task, item.user, FALSE, 0)}
             /\ \A x \in work' : x.n # item.n \/ x.kind # "publish"
       /\ PublicationStep => Cardinality(Left(1) \cup Left(2)) = 1]_vars

\* The task event of a mutation was refused by the broker and the
\* task-update event of the same kind and task was attempted after it.
C32_Witness ==
    /\ pubLast.op = "publish_task_update_event"
    /\ \E a, b \in sent :
          /\ a.topic = "task-events" /\ b.topic = "task-updates"
          /\ b.id = a.id + 1
          /\ a.event_type = b.event_type /\ a.task = b.task
          /\ \A p \in published : p.id # a.id

\* create_reminder answered 201.
ReminderCreated ==
    /\ nOps' = nOps + 1
    /\ resp'.op = "create_reminder" /\ resp'.status = "201"

\* C33: once create_reminder has answered with success, the scheduler
\* holds the job reminder-<id> of the reminder it created, with the
\* reminder's id, task and user as its data.
C33_JobHeldAfterCreate ==
    [][ReminderCreated
       => /\ Cardinality(reminders' \ reminders) = 1
          /\ \A r \in reminders' \ reminders :
                Job(r.id, r.task_id, r.user_id) \in jobs']_vars

\* C34: every job held carries the name made from the id of its reminder,
\* and jobs of distinct reminders have distinct names; delete_reminder
\* cancels the name made from the id of the reminder it deletes, and
\* delete_task starts one cancel per reminder of the task, under the name
\* made from that reminder's id; a cancel removes no job of any other
\* reminder than the one its name was made from.
C34_JobNameFromReminderId ==
    [][/\ \A j \in jobs' : j.name = JobName(j.reminder_id)
       /\ \A j1, j2 \in jobs' :
             j1.reminder_id # j2.reminder_id => j1.name # j2.name
       /\ ReminderCreated
          => \A j \in jobs' \ jobs : \A r \in reminders' \ reminders :
                j.name = JobName(r.id) /\ j.reminder_id = r.id
       /\ (nOps' = nOps + 1 /\ resp'.op = "delete_reminder"
           /\ resp'.status = "200")
          => /\ Cardinality(reminders \ reminders') = 1
             /\ \A r \in reminders \ reminders' :
                   cancelLast'.job = JobName(r.id)
       /\ (nOps' = nOps + 1 /\ resp'.op = "delete_task"
           /\ resp'.status = "204")
          => {w.job : w \in {x \in work' \ work : x.kind = "cancel"}}
               = {JobName(r.id) : r \in RemindersOf(resp'.task)}
       /\ CancelStep
          => \A j \in jobs \ jobs' :
                cancelLast'.job = JobName(j.reminder_id)]_vars

\* Two reminders of the one task had their jobs scheduled; the job of the
\* first was cancelled and the scheduler still holds the job of the second.
C34_Witness ==
    /\ opsOn["t2"] = 0
    /\ cancelLast.status = "204" /\ cancelLast.job = JobName(1)
    /\ jobs = {Job(2, "t1", "u1")}

\* Invocation w of the audit handler runs its commit.
AuditCommits(w) == pc["audit"][w] = "commit" /\ pc'["audit"][w] = "idle"

\* C35: when an invocation of the audit handler commits an envelope that
\* passed the ledger lookup, at most one audit entry of that envelope id is
\* persisted afterwards; if another invocation has committed the same id in
\* between, the commit is refused and neither its audit entry nor a ledger
\* row is written.
C35_ConcurrentAuditOneEntry ==
    [][\A w \in Workers :
         AuditCommits(w)
         => LET x == UUID(Env(env["audit"][w]).id) IN
              /\ Cardinality({i \in DOMAIN auditStore' :
                                auditStore'[i].from_event = x}) <= 1
              /\ x \in ledger["audit"]
                 => /\ last'.result = "EXCEPTION"
                    /\ auditStore' = auditStore /\ ledger' = ledger]_vars

\* Two invocations passed the lookup for the same envelope; the first
\* committed, and the commit of the second, the database being available,
\* was refused, leaving the one entry.
C35_Witness ==
    /\ last.svc = "audit" /\ last.op = "commit"
    /\ last.input = "db_ok" /\ last.result = "EXCEPTION"
    /\ UUID(Env(last.env).id) \in ledger["audit"]
    /\ Cardinality({i \in DOMAIN auditStore :
                      auditStore[i].from_event = UUID(Env(last.env).id)}) = 1

\* C36 as stated: for one reminder at most one notification is emitted,
\* also when the scheduler fires the job again after a callback that
\* answered 500; checked in the form that all the notification lines of one
\* reminder come from one envelope.
C36_OneNotificationPerReminder ==
    \A i, j \in DOMAIN notifLog :
       notifLog[i].reminder_id = notifLog[j].reminder_id
          => notifLog[i].from_event = notifLog[j].from_event

\* C37 as stated: when the commit of delete_task fails, the task and its
\* reminders remain and the request has started neither the publication of
\* a deleted event nor the cancellation of any job.
C37_NothingIssuedOnFailedDelete ==
    [][(nOps' = nOps + 1 /\ resp'.op = "delete_task"
        /\ resp'.status = "500")
       => /\ tasks' = tasks /\ reminders' = reminders
          /\ work' = work]_vars

\* The ids of the reminders whose deletion has been committed: issued, and
\* no row left.
DeletedReminders ==
    {id \in 1..(nextRem - 1) : \A r \in reminders : r.id # id}

\* C38: a trigger callback for a reminder whose deletion has been committed
\* (by delete_reminder or with its task) answers 404 and publishes nothing,
\* also when it is made by a job whose cancellation failed; so no reminder
\* event is ever handed to the publisher for a deleted reminder.
C38_NoEventAfterReminderDeleted ==
    [][/\ (TriggerStep /\ resp'.reminder \in DeletedReminders)
          => /\ resp'.status = "404"
             /\ nPublish' = nPublish /\ brokerCalls' = brokerCalls
             /\ published' = published /\ sent' = sent
       /\ \A m \in sent' \ sent :
             m.topic = "reminders" => m.reminder \notin DeletedReminders]_vars

\* The cancel of delete_reminder failed, the job stayed and fired for the
\* deleted reminder, and the callback answered 404.
C38_Witness ==
    /\ resp.op = "trigger_reminder" /\ resp.status = "404"
    /\ resp.reminder \in DeletedReminders
    /\ tasks[resp.task] # NoTask
    /\ cancelLast.returned = "False"
    /\ \E j \in jobs : j.reminder_id = resp.reminder

\* The `completed` task events of task t1 whose publication was started:
\* those handed to the publisher and those still waiting in detached work.
CompletedSent ==
    {m \in sent : m.topic = "task-events" /\ m.event_type = "completed"
                   /\ m.task = "t1"}
CompletedWaiting ==
    {item \in work : item.kind = "publish" /\ item.stage = 1
                      /\ item.event_type = "completed" /\ item.task = "t1"}

\* C39: complete_task negates the completion flag and starts a publication
\* of kind `completed` when the task is now completed and of kind `updated`
\* when it is now incomplete; hence a task created and toggled k times has
\* had k/2 rounded up `completed` publications started, and every
\* `completed` event of a recurring task that the recurring service has
\* processed has a successor of its own (more than one only when the same
\* event was handled by two invocations at once).
C39_ToggleKinds ==
    [][/\ (nOps' = nOps + 1 /\ resp'.op = "complete_task"
           /\ resp'.status = "200")
          => /\ tasks'[resp'.task].completed = ~tasks[resp'.task].completed
             /\ \E item \in work' \ work :
                   item.event_type = "completed"
                      <=> tasks'[resp'.task].completed
             /\ \A item \in work' \ work :
                   item.event_type \in {"completed", "updated"}
       /\ Cardinality(CompletedSent') + Cardinality(CompletedWaiting')
             = opsOn'["t1"] \div 2
       /\ \A m \in CompletedSent' :
             (m.is_recurring /\ UUID(IdText(m.id)) \in ledger'["recurring"])
                => CountFrom(successors', UUID(IdText(m.id))) >= 1]_vars

\* Recurring task t1 was toggled complete, incomplete, complete: two
\* `completed` events were published and processed, and two successors
\* were asked for, one from each.
C39_Witness ==
    /\ opsOn["t1"] = 4 /\ tasks["t1"].completed /\ tasks["t1"].is_recurring
    /\ Cardinality(CompletedSent) = 2
    /\ Len(successors) = 2
    /\ successors[1].from_event # successors[2].from_event
    /\ \A m \in CompletedSent : UUID(IdText(m.id)) \in ledger["recurring"]

\* C40 as stated: every stored task that is recurring has a recurrence rule
\* that is one of daily, weekly, monthly.
C40_RecurringHasValidRule ==
    \A t \in TaskIds :
       (tasks[t] # NoTask /\ tasks[t].is_recurring)
          => tasks[t].recurrence_rule \in VALID_RECURRENCE_RULES

====
